---------------------------- MODULE Spec2Model ----------------------------
(***************************************************************************)
(* Reply correlation over an IMAP session, extraction of a field record    *)
(* from the text of a text-generation service, and the orchestrator loop   *)
(* that drives them.                                                       *)
(*                                                                         *)
(* The specifications share the module's variables:                      *)
(*   SpecCorr    find_reply of "src/src/imap_client_<...>.py" (the folder  *)
(*               sweep with the five-signal confidence score);             *)
(*   SpecExtract LMStudioClient._parse_response and                        *)
(*               ExcelProcessor.parse_lm_studio_response on bounded texts; *)
(*   SpecMain    the loop of main() over the send-events, with find_reply  *)
(*               of src/src/imap_client.py under retry_with_backoff;       *)
(*   SpecRetry   utils.retry_with_backoff around one decorated function    *)
(*               (SpecRetryFair: the wrapper goes on while it can);        *)
(*   SpecXl      ExcelProcessor.update_rows as main() calls it;            *)
(*   SpecSent    get_sent_emails of "src/src/imap_client_<...>.py" with    *)
(*               its reconnect on a dropped connection (SpecSentFair: the  *)
(*               loop goes on while it can).                               *)
(* A specification leaves the variables it does not use at their initial   *)
(* values.                                                                 *)
(***************************************************************************)
EXTENDS Integers, Sequences, FiniteSets, TLC

VARIABLES
    \* ---- correlation (IMAPClient.find_reply, folder sweep) ----
    sent,            \* sent_email_data of the call
    listing,         \* what conn.list() answers: the raw folder names, in order
    mailbox,         \* the store: raw folder name -> sequence of messages
    frPc,            \* position of find_reply: "begin", "sweep", "done"
    search_folders,  \* find_reply's local list of folders to scan
    folderIdx,       \* index in search_folders of the next folder of the loop
    found_replies,   \* the pool that was ranked (the last folder's pool)
    result,          \* <<>> (None), <<reply>>, or <<"raised">>
    selectLog,       \* folder names handed to conn.select, in order
    connSelected,    \* the folder selected on the connection (<<>>: none)
    faults,          \* store faults injected so far in this call
    \* ---- extraction ----
    gen,             \* how rawText was built (the input's description)
    rawText,         \* the text given to extraction, a sequence of characters
    exPc,            \* "layer1", "layer2", "layer3", "done"
    extracted,       \* <<>> (None) or <<record>>: result of _parse_response
    text_content,    \* <<>>, or <<v>>: what parse_lm_studio_response unwrapped
    \* ---- orchestrator ----
    sent_emails,     \* the send-events of the run
    inbox,           \* INBOX of the store, as src/src/imap_client.py searches it
    conn,            \* the IMAP connection: "up" or "dropped"
    mainPc,          \* "find", "analyze", "update", "finished"
    idx,             \* index of the send-event the loop is at
    attempt,         \* retry_with_backoff's attempt, counted from 0
    reply,           \* what find_reply returned for the send-event at idx
    stats,           \* ProcessingStats
    outcome,         \* per send-event: how the loop body left it
    \* ---- retry_with_backoff around one decorated function ----
    wrapped,         \* the decorated function
    script,          \* what befalls the function's 1st, 2nd, ... invocation
    rwPc,            \* "off", "loop", "done"
    rwAttempt,       \* the wrapper's loop variable attempt
    invoked,         \* how many times func was called
    slept,           \* the exponents of the delays slept, in order
    rwResult,        \* how the wrapper left: [how, what]
    \* ---- ExcelProcessor.update_rows ----
    df,              \* the sheet: a sequence of rows [mail, cells]
    changes,         \* self.changes: the (row, column) pairs written
    to_email,        \* update_rows' argument email
    raw_response,    \* update_rows' argument raw_response
    xlPc,            \* "off", "call", "done"
    updated,         \* what update_rows returned
    \* ---- IMAPClient.get_sent_emails of the backup client ----
    gsListing,       \* what conn.list() answers: the raw folder names
    stored,          \* how many messages of the sent folder SINCE matches
    gsPc,            \* "off", "begin", "fetch", "done", "raised"
    imap,            \* self.conn: [state, folder], folder the one selected
    selected_folder, \* self.selected_folder
    gsIds,           \* ids: what the search returned
    searched,        \* the folder that was selected when the search ran
    eidPos,          \* index in ids of the message the loop is at
    tries,           \* the loop's counter of aborted attempts
    gsEmails,        \* emails: the messages decoded so far (their ids)
    fetchLog,        \* per call of conn.fetch: id, session at the call, outcome
    gsFaults         \* faults of the store and the network so far

corrVars == <<sent, listing, mailbox, frPc, search_folders, folderIdx,
              found_replies, result, selectLog, connSelected, faults>>
exVars   == <<gen, rawText, exPc, extracted, text_content>>
mainVars == <<sent_emails, inbox, conn, mainPc, idx, attempt, reply, stats, outcome>>
retryVars == <<wrapped, script, rwPc, rwAttempt, invoked, slept, rwResult>>
xlVars   == <<df, changes, to_email, raw_response, xlPc, updated>>
sentVars == <<gsListing, stored, gsPc, imap, selected_folder, gsIds, searched,
              eidPos, tries, gsEmails, fetchLog, gsFaults>>
vars     == <<corrVars, exVars, mainVars, retryVars, xlVars, sentVars>>

None == <<>>
Some(x) == <<x>>

\* an exception that leaves the function
Raised == <<"raised", "raised">>

-----------------------------------------------------------------------------
(* Bounds of the model.                                                    *)
MaxFolders == 2     \* folders in one LIST answer
MaxMsgs    == 2     \* messages in the whole store
MaxFaults  == 1     \* store faults during one find_reply

-----------------------------------------------------------------------------
(* Sequences.                                                              *)
RECURSIVE SeqToSet(_)
SeqToSet(s) == IF s = <<>> THEN {} ELSE {Head(s)} \cup SeqToSet(Tail(s))

\* the element of a set of one element; The({e : x \in {v}}) is e with x
\* standing for the value v
The(S) == CHOOSE x \in S : TRUE

\* the least element of a non-empty set of integers
MinOf(S) == CHOOSE x \in S : \A y \in S : x <= y

\* the concatenation of ss[lo], .., ss[hi]
RECURSIVE CatRange(_, _, _)
CatRange(ss, lo, hi) ==
    IF lo > hi THEN <<>>
    ELSE IF lo = hi THEN ss[lo]
    ELSE CatRange(ss, lo, (lo + hi) \div 2) \o CatRange(ss, ((lo + hi) \div 2) + 1, hi)

Cat(ss) == CatRange(ss, 1, Len(ss))

RECURSIVE Ascending(_)
\* the integers of S as an ascending sequence
Ascending(S) ==
    IF S = {} THEN <<>>
    ELSE LET m == CHOOSE x \in S : \A y \in S : x <= y
         IN  <<m>> \o Ascending(S \ {m})

\* s occurs in t as a contiguous run (Python's "s in t")
IsInfix(s, t) ==
    \E k \in 0..(Len(t) - Len(s)) : \A i \in 1..Len(s) : t[k + i] = s[i]

-----------------------------------------------------------------------------
(* Folder names.  A name is a sequence of units as the server sends them   *)
(* (modified UTF-7): a unit is one directly written character, or one      *)
(* "&...-" block standing for the characters it encodes.  Characters are   *)
(* Unicode code points.                                                    *)
Ch(c)     == [enc |-> FALSE, cps |-> <<c>>]
Block(cs) == [enc |-> TRUE, cps |-> cs]

RECURSIVE Direct(_)
Direct(cs) == IF cs = <<>> THEN <<>> ELSE <<Ch(Head(cs))>> \o Direct(Tail(cs))

INBOX        == Direct(<<73, 78, 66, 79, 88>>)
ArchiveName  == Direct(<<65, 114, 99, 104, 105, 118, 101>>)
\* "SENT Items": capitals, and a space, so that the name is quoted in SELECT
SentItems    == Direct(<<83, 69, 78, 84, 32, 73, 116, 101, 109, 115>>)
\* the Russian name of the sent folder (12 Cyrillic letters), sent encoded
Otpravlennye == <<Block(<<1054, 1090, 1087, 1088, 1072, 1074, 1083, 1077, 1085,
                          1085, 1099, 1077>>)>>

FolderUniverse == {INBOX, ArchiveName, SentItems, Otpravlennye}

\* str.lower() on one code point: Latin and Cyrillic capitals
LowerCp(c) == IF (c >= 65 /\ c <= 90) \/ (c >= 1040 /\ c <= 1071) THEN c + 32
              ELSE c

LowerCps(cs) == [i \in 1..Len(cs) |-> LowerCp(cs[i])]

\* the characters of a name taken unit by unit, blocks decoded or not
RECURSIVE UnitChars(_, _)
UnitChars(name, decode) ==
    IF name = <<>> THEN <<>>
    ELSE LET u == Head(name)
         IN  (IF u.enc /\ ~decode THEN <<38>> \o u.cps \o <<45>> ELSE u.cps)
               \o UnitChars(Tail(name), decode)

\* IMAPClient._decode_utf7: a name with an "&" in it, other than INBOX, is
\* decoded; every other name is returned as it is.  (No name of FolderUniverse
\* writes a literal "&", "+" or ",", which the replace() calls would alter.)
decode_utf7(folder_name) ==
    IF (\E i \in 1..Len(folder_name) :
            folder_name[i].enc \/ folder_name[i].cps = <<38>>)
       /\ folder_name # INBOX
    THEN UnitChars(folder_name, TRUE)
    ELSE UnitChars(folder_name, FALSE)

\* IMAPClient._list_folders: raw and decoded name of every listed folder
list_folders(names) ==
    [i \in 1..Len(names) |-> [raw |-> names[i], decoded |-> decode_utf7(names[i])]]

\* 'sent', the Russian stem of "sent", 'spam', 'junk', 'trash', the Russian
\* stems of "trash bin" and "deleted"
exclude_patterns ==
    << <<115, 101, 110, 116>>,
       <<1086, 1090, 1087, 1088, 1072, 1074>>,
       <<115, 112, 97, 109>>,
       <<106, 117, 110, 107>>,
       <<116, 114, 97, 115, 104>>,
       <<1082, 1086, 1088, 1079, 1080, 1085>>,
       <<1091, 1076, 1072, 1083, 1077, 1085>> >>

\* the test without .lower()
NotExcluded_cased(folder) ==
    ~ \E p \in 1..Len(exclude_patterns) :
          IsInfix(exclude_patterns[p], folder.decoded)

\* find_reply's test of one listed folder: no pattern in the lowered decoded name
NotExcluded(folder) ==
    ~ \E p \in 1..Len(exclude_patterns) :
          IsInfix(exclude_patterns[p], LowerCps(folder.decoded))

RECURSIVE AppendEligible(_, _)
\* find_reply's loop over folder_info, appending to search_folders
AppendEligible(acc, info) ==
    IF info = <<>> THEN acc
    ELSE LET f == Head(info)
         IN  AppendEligible(
                 IF NotExcluded(f) /\ f.raw \notin SeqToSet(acc)
                 THEN Append(acc, f.raw) ELSE acc,
                 Tail(info))

BuildSearchFolders(info) == AppendEligible(<<INBOX>>, info)

-----------------------------------------------------------------------------
(* Header values.  Message ids and addresses are literal strings with the  *)
(* string functions the code applies to them tabulated; a subject is the   *)
(* sequence of its whitespace-separated words.                             *)

\* str.strip('<>')
StripAngle(s) == CASE s = "<a>" -> "a"
                   [] s = "<b>" -> "b"
                   [] s = "<z>" -> "z"
                   [] OTHER -> s

\* "needle in references": a References header is the sequence of its ids
IdInReferences(needle, references) ==
    \E i \in 1..Len(references) : StripAngle(references[i]) = needle

\* str.lower() on the address literals
LowerAddr(s) == CASE s = "Bob@X.com" -> "bob@x.com"
                  [] s = "Bob <Bob@X.com>" -> "bob <bob@x.com>"
                  [] OTHER -> s

\* "needle in hay" on lowered address literals
AddrIn(needle, hay) ==
    \/ needle = ""
    \/ needle = hay
    \/ needle = "bob@x.com" /\ hay = "bob <bob@x.com>"

\* str.lower() on one word; "re_cyr:" stands for the Cyrillic reply marker
LowerWord(w) == CASE w = "Re:" -> "re:"
                  [] w = "RE:" -> "re:"
                  [] w = "Fwd:" -> "fwd:"
                  [] w = "FWD:" -> "fwd:"
                  [] w = "Offer" -> "offer"
                  [] w = "OFFER" -> "offer"
                  [] w = "Hello" -> "hello"
                  [] w = "Price" -> "price"
                  [] OTHER -> w

LowerWords(ws) == [i \in 1..Len(ws) |-> LowerWord(ws[i])]

\* re.sub(r'^(Re:|RE:|re:|Fwd:|FWD:|fwd:)\s*', '', subject).strip()
StripReFwd(subject) ==
    IF subject # <<>> /\ Head(subject) \in {"Re:", "RE:", "re:", "Fwd:", "FWD:", "fwd:"}
    THEN Tail(subject) ELSE subject

\* re.sub(r'^(Re:|RE:|re:)\s*', '', sent_subject).strip()
StripRe(subject) ==
    IF subject # <<>> /\ Head(subject) \in {"Re:", "RE:", "re:"}
    THEN Tail(subject) ELSE subject

\* subject.lower().startswith(('re:', <Cyrillic re:>))
StartsWithReplyMarker(subject) ==
    subject # <<>> /\ LowerWord(Head(subject)) \in {"re:", "re_cyr:"}

\* IMAPClient._subjects_match
subjects_match(reply_subject, original_subject) ==
    IF reply_subject = <<>> \/ original_subject = <<>> THEN FALSE
    ELSE LET clean_reply    == StripReFwd(reply_subject)
             clean_original == StripReFwd(original_subject)
             reply_words    == SeqToSet(LowerWords(clean_reply))
             original_words == SeqToSet(LowerWords(clean_original))
         IN  IF LowerWords(clean_reply) = LowerWords(clean_original) THEN TRUE
             ELSE IF Cardinality(original_words) > 0
                  THEN 10 * Cardinality(reply_words \cap original_words)
                          >= 7 * Cardinality(original_words)
                  ELSE FALSE

-----------------------------------------------------------------------------
(* Time.  A time is a count of day slots, so that the store's SINCE and    *)
(* BEFORE, which compare dates only, see less than the code's comparison   *)
(* of two datetimes.                                                       *)
SlotsPerDay == 2
WindowDays     == 30
NoDate         == -1      \* a Date header that is missing or does not parse

Day(t) == t \div SlotsPerDay

\* sent_datetime + timedelta(days=30)
EndDate(sent_datetime) == sent_datetime + WindowDays * SlotsPerDay

\* SINCE "<since_date>" BEFORE "<before_date>" on a message's internal date
InWindow(m, sent_datetime) ==
    /\ Day(m.idate) >= Day(sent_datetime)
    /\ Day(m.idate) < Day(EndDate(sent_datetime))

-----------------------------------------------------------------------------
(* IMAPClient._fetch_and_validate_reply, on a fetched message.             *)
W_InReplyTo  == 50
W_References == 40
W_From       == 30
W_RePrefix   == 20
W_Subject    == 15
AcceptAt     == 40

\* a score that leaves the similarity of the subjects out
Confidence_no_subject(m, sent_message_id, sent_to, sent_subject) ==
      (IF StripAngle(m.in_reply_to) = sent_message_id THEN W_InReplyTo ELSE 0)
    + (IF IdInReferences(sent_message_id, m.references) THEN W_References ELSE 0)
    + (IF AddrIn(sent_to, LowerAddr(m.from)) THEN W_From ELSE 0)
    + (IF StartsWithReplyMarker(m.subject) THEN W_RePrefix ELSE 0)

Confidence(m, sent_message_id, sent_to, sent_subject) ==
      (IF StripAngle(m.in_reply_to) = sent_message_id THEN W_InReplyTo ELSE 0)
    + (IF IdInReferences(sent_message_id, m.references) THEN W_References ELSE 0)
    + (IF AddrIn(sent_to, LowerAddr(m.from)) THEN W_From ELSE 0)
    + (IF StartsWithReplyMarker(m.subject) THEN W_RePrefix ELSE 0)
    + (IF subjects_match(m.subject, sent_subject) THEN W_Subject ELSE 0)

IsReplyFlag(m, sent_message_id) ==
    \/ StripAngle(m.in_reply_to) = sent_message_id
    \/ IdInReferences(sent_message_id, m.references)

\* the temporal check: "if reply_date and reply_date <= sent_datetime: return None"
TooEarly(m, sent_datetime) == m.date # NoDate /\ m.date <= sent_datetime

ReplyOf(m, confidence) ==
    [message_id  |-> m.message_id,
     from        |-> LowerAddr(m.from),
     subject     |-> m.subject,
     confidence  |-> confidence,
     reply_date  |-> m.date,
     in_reply_to |-> StripAngle(m.in_reply_to),
     references  |-> m.references]

\* a validation that accepts on is_reply alone
fetch_and_validate_reply_flagged(m, fetchOk, sent_message_id, sent_to, sent_subject, sent_datetime) ==
    IF ~fetchOk THEN None
    ELSE IF TooEarly(m, sent_datetime) THEN None
    ELSE LET confidence == Confidence(m, sent_message_id, sent_to, sent_subject)
         IN  IF IsReplyFlag(m, sent_message_id)
             THEN Some(ReplyOf(m, confidence))
             ELSE None

\* None (<<>>) or the reply record (<<r>>); fetchOk: the FETCH answered OK
fetch_and_validate_reply(m, fetchOk, sent_message_id, sent_to, sent_subject, sent_datetime) ==
    IF ~fetchOk THEN None
    ELSE IF TooEarly(m, sent_datetime) THEN None
    ELSE LET confidence == Confidence(m, sent_message_id, sent_to, sent_subject)
         IN  IF IsReplyFlag(m, sent_message_id) \/ confidence >= AcceptAt
             THEN Some(ReplyOf(m, confidence))
             ELSE None

-----------------------------------------------------------------------------
(* IMAPClient._select_best_reply: list.sort is stable, so the first of the *)
(* list among those with the least key (-confidence, distance) is taken.   *)
Distance(r, sent_datetime) ==
    IF r.reply_date = NoDate THEN -1     \* float('inf')
    ELSE IF r.reply_date >= sent_datetime THEN r.reply_date - sent_datetime
    ELSE sent_datetime - r.reply_date

\* a key that is the confidence alone
KeyLess_by_confidence(a, b, sent_datetime) == a.confidence > b.confidence

\* key(a) < key(b)
KeyLess(a, b, sent_datetime) ==
    LET da == Distance(a, sent_datetime)
        db == Distance(b, sent_datetime)
    IN  \/ a.confidence > b.confidence
        \/ /\ a.confidence = b.confidence
           /\ da # -1
           /\ (db = -1 \/ da < db)

\* a ranking that takes the first reply fetched
select_best_reply_first(replies, sent_datetime) ==
    IF replies = <<>> THEN None ELSE Some(replies[1])

select_best_reply(replies, sent_datetime) ==
    IF replies = <<>> THEN None
    ELSE LET best == CHOOSE i \in 1..Len(replies) :
                        /\ \A j \in 1..Len(replies) :
                               ~KeyLess(replies[j], replies[i], sent_datetime)
                        /\ \A j \in 1..(i - 1) :
                               KeyLess(replies[i], replies[j], sent_datetime)
         IN  Some(replies[best])

-----------------------------------------------------------------------------
(* The store's SEARCH in the selected folder, for find_reply's criteria:   *)
(* 1 In-Reply-To, 2 References, 3 FROM, 4 and 5 SUBJECT "Re: ..." and      *)
(* "RE: ..." (the store compares without case).  The answer lists the      *)
(* matching sequence numbers in ascending order.                           *)
Matches(k, m, sent_message_id, sent_to, clean_subject) ==
    CASE k = 1 -> StripAngle(m.in_reply_to) = sent_message_id
      [] k = 2 -> IdInReferences(sent_message_id, m.references)
      [] k = 3 -> AddrIn(sent_to, LowerAddr(m.from))
      [] OTHER -> IsInfix(<<"re:">> \o LowerWords(clean_subject), LowerWords(m.subject))

search(k, msgs, sent_message_id, sent_to, clean_subject, sent_datetime) ==
    Ascending({i \in 1..Len(msgs) :
                  /\ InWindow(msgs[i], sent_datetime)
                  /\ Matches(k, msgs[i], sent_message_id, sent_to, clean_subject)})

\* find_reply's search_criteria: three, and two more when the subject, with a
\* leading "Re:" removed, is not empty
NumCriteria(sent_subject) ==
    IF sent_subject # <<>> /\ StripRe(sent_subject) # <<>> THEN 5 ELSE 3

RECURSIVE ValidateAll(_, _, _, _, _, _, _)
\* the inner loop "for eid in email_ids": the accepted replies, in fetch order
ValidateAll(ids, msgs, lostId, sent_message_id, sent_to, sent_subject, sent_datetime) ==
    IF ids = <<>> THEN <<>>
    ELSE fetch_and_validate_reply(msgs[Head(ids)], Head(ids) # lostId, sent_message_id,
                                  sent_to, sent_subject, sent_datetime)
           \o ValidateAll(Tail(ids), msgs, lostId, sent_message_id, sent_to,
                          sent_subject, sent_datetime)

RECURSIVE PoolFrom(_, _, _, _, _, _, _, _)
\* the loop "for criteria in search_criteria" from criterion k on; the search
\* of criterion badCrit raises and is skipped, the fetch of lostId fails
PoolFrom(k, msgs, badCrit, lostId, sent_message_id, sent_to, sent_subject, sent_datetime) ==
    IF k > NumCriteria(sent_subject) THEN <<>>
    ELSE (IF k = badCrit THEN <<>>
          ELSE ValidateAll(search(k, msgs, sent_message_id, sent_to,
                                  StripRe(sent_subject), sent_datetime),
                           msgs, lostId, sent_message_id, sent_to, sent_subject,
                           sent_datetime))
           \o PoolFrom(k + 1, msgs, badCrit, lostId, sent_message_id, sent_to,
                       sent_subject, sent_datetime)

-----------------------------------------------------------------------------
(* The inputs of one find_reply: the sent record, the store's folders and  *)
(* messages.                                                               *)
SentAt == 3

SentRecords ==
    {[message_id |-> mid, to |-> "Bob@X.com", subject |-> <<"Offer">>, date |-> SentAt]
        : mid \in {"<a>", ""}}

\* messages dated the day after the sent message; their confidence is 45, 50
\* or 30 from the recipient and 15, 20 or 0 from somebody else, and 50 more
\* with In-Reply-To "<a>"
PlainKinds ==
    {[in_reply_to |-> irt, references |-> <<>>, from |-> fr, subject |-> sj,
      date |-> SentAt + 1, idate |-> SentAt + 1]
        : irt \in {"<a>", "<b>"},
          fr \in {"Bob <Bob@X.com>", "eve@y.org"},
          sj \in {<<"OFFER">>, <<"RE:", "Hello">>, <<"Hello">>}}

\* a References-only reply, a "Re: Offer" from the recipient and a reply
\* that shows all five signals, of the day after; the exact reply dated
\* earlier on the day of the sent message, at its very time, without a Date
\* header, the day after, on the last day of the window and on the day the
\* window has closed
DatedKinds ==
    {[in_reply_to |-> "", references |-> <<"<z>", "<a>">>, from |-> "eve@y.org",
      subject |-> <<"Hello">>, date |-> SentAt + 1, idate |-> SentAt + 1],
     [in_reply_to |-> "<a>", references |-> <<"<a>">>, from |-> "Bob <Bob@X.com>",
      subject |-> <<"Re:", "Offer">>, date |-> SentAt + 1, idate |-> SentAt + 1],
     [in_reply_to |-> "<b>", references |-> <<>>, from |-> "Bob <Bob@X.com>",
      subject |-> <<"Re:", "Offer">>, date |-> SentAt + 1, idate |-> SentAt + 1]}
    \cup
    {[in_reply_to |-> "<a>", references |-> <<>>, from |-> "Bob <Bob@X.com>",
      subject |-> <<"Re:", "Offer">>, date |-> d[1], idate |-> d[2]]
        : d \in {<<SentAt - 1, SentAt - 1>>, <<SentAt, SentAt>>,
                 <<NoDate, SentAt - 1>>, <<SentAt + 1, SentAt + 1>>,
                 <<SentAt + (WindowDays * SlotsPerDay) - SlotsPerDay,
                   SentAt + (WindowDays * SlotsPerDay) - SlotsPerDay>>,
                 <<SentAt + (WindowDays * SlotsPerDay),
                   SentAt + (WindowDays * SlotsPerDay)>>}}

MsgKinds == PlainKinds \cup DatedKinds

RECURSIVE SeqsUpTo(_, _)
\* the sequences of at most n elements of S
SeqsUpTo(S, n) ==
    IF n = 0 THEN {<<>>}
    ELSE LET shorter == SeqsUpTo(S, n - 1)
         IN  shorter \cup {Append(q, x) : q \in {r \in shorter : Len(r) = n - 1}, x \in S}

\* those without a repeated element
DistinctSeqs(S, n) ==
    {q \in SeqsUpTo(S, n) : \A i, j \in 1..Len(q) : i # j => q[i] # q[j]}

Listings == DistinctSeqs(FolderUniverse, MaxFolders)

MsgId(i) == CASE i = 1 -> "m1" [] i = 2 -> "m2" [] i = 3 -> "m3" [] OTHER -> "m4"

WithId(kind, i) ==
    [message_id |-> MsgId(i), in_reply_to |-> kind.in_reply_to,
     references |-> kind.references, from |-> kind.from, subject |-> kind.subject,
     date |-> kind.date, idate |-> kind.idate]

\* the store holding placed[i].kind in folder placed[i].folder, for every i
StoreOf(folders, placed) ==
    [f \in folders |->
        LET here == Ascending({i \in 1..Len(placed) : placed[i].folder = f})
        IN  [j \in 1..Len(here) |-> WithId(placed[here[j]].kind, here[j])]]

-----------------------------------------------------------------------------
(* Values of the variables a specification does not use.                   *)
CorrIdle ==
    /\ sent = [message_id |-> "", to |-> "", subject |-> <<>>, date |-> 0]
    /\ listing = <<>>
    /\ mailbox = <<>>
    /\ frPc = "off"
    /\ search_folders = <<>>
    /\ folderIdx = 0
    /\ found_replies = <<>>
    /\ result = None
    /\ selectLog = <<>>
    /\ connSelected = None
    /\ faults = 0

ExIdle ==
    /\ gen = [shape |-> "off"]
    /\ rawText = <<>>
    /\ exPc = "off"
    /\ extracted = None
    /\ text_content = None

\* ProcessingStats.__init__
NewStats ==
    [replies_found |-> 0, lm_analysis_success |-> 0, excel_updates |-> 0,
     errors |-> [imap |-> 0, lm_studio |-> 0, excel |-> 0],
     bad_processing |-> <<>>]

MainIdle ==
    /\ sent_emails = <<>>
    /\ inbox = <<>>
    /\ conn = "up"
    /\ mainPc = "off"
    /\ idx = 0
    /\ attempt = 0
    /\ reply = None
    /\ stats = NewStats
    /\ outcome = <<>>

RetryIdle ==
    /\ wrapped = "off"
    /\ script = <<>>
    /\ rwPc = "off"
    /\ rwAttempt = 0
    /\ invoked = 0
    /\ slept = <<>>
    /\ rwResult = [how |-> "running", what |-> <<"", 0>>]

XlIdle ==
    /\ df = <<>>
    /\ changes = {}
    /\ to_email = ""
    /\ raw_response = None
    /\ xlPc = "off"
    /\ updated = 0

SentIdle ==
    /\ gsListing = <<>>
    /\ stored = 0
    /\ gsPc = "off"
    /\ imap = [state |-> "none", folder |-> None]
    /\ selected_folder = None
    /\ gsIds = <<>>
    /\ searched = None
    /\ eidPos = 0
    /\ tries = 0
    /\ gsEmails = <<>>
    /\ fetchLog = <<>>
    /\ gsFaults = 0

-----------------------------------------------------------------------------
(* IMAPClient.find_reply, the folder sweep.                                *)
InitCorr ==
    /\ sent \in SentRecords
    /\ listing \in Listings
    /\ \E placed \in SeqsUpTo([kind : MsgKinds,
                               folder : SeqToSet(listing) \cup {INBOX}],
                              IF sent.message_id = "" THEN 1 ELSE MaxMsgs) :
           mailbox = StoreOf(SeqToSet(listing) \cup {INBOX}, placed)
    /\ frPc = "begin"
    /\ search_folders = <<>>
    /\ folderIdx = 0
    /\ found_replies = <<>>
    /\ result = None
    /\ selectLog = <<>>
    /\ connSelected = None
    /\ faults = 0
    /\ ExIdle
    /\ MainIdle
    /\ RetryIdle
    /\ XlIdle
    /\ SentIdle

\* sent_email_data['message_id'].strip('<>')
SentMessageId == StripAngle(sent.message_id)
\* sent_email_data.get('to', '').lower()
SentTo == LowerAddr(sent.to)

\* lines 244-272: no message id, no search; else the folder list is read (the
\* call is outside every try, so a failed LIST leaves find_reply as an
\* exception) and search_folders is built
find_reply_begin ==
    /\ frPc = "begin"
    /\ IF sent.message_id = ""
       THEN /\ frPc' = "done"
            /\ UNCHANGED <<search_folders, folderIdx, faults>>
       ELSE \E listOk \in (IF faults < MaxFaults THEN BOOLEAN ELSE {TRUE}) :
              IF listOk
              THEN /\ search_folders' = BuildSearchFolders(list_folders(listing))
                   /\ folderIdx' = 1
                   /\ frPc' = "sweep"
                   /\ UNCHANGED faults
              ELSE /\ frPc' = "raised"
                   /\ faults' = faults + 1
                   /\ UNCHANGED <<search_folders, folderIdx>>
    /\ result' = None
    /\ UNCHANGED <<sent, listing, mailbox, found_replies, selectLog, connSelected>>
    /\ UNCHANGED <<exVars, mainVars, retryVars, xlVars, sentVars>>

\* the faults the store may show during one pass of the folder loop: the
\* SELECT answers NO or raises (either way the folder is skipped), the SEARCH
\* of one criterion raises, the FETCH of one message fails
FolderFaults(n) ==
    {[kind |-> "none", at |-> 0]}
    \cup (IF faults < MaxFaults
          THEN {[kind |-> "select_fail", at |-> 0]}
               \cup {[kind |-> "search_raise", at |-> k] : k \in 1..NumCriteria(sent.subject)}
               \cup {[kind |-> "fetch_fail", at |-> i] : i \in 1..n}
          ELSE {})

\* lines 275-322: one pass of "for folder_name in search_folders"
find_reply_folder ==
    /\ frPc = "sweep"
    /\ folderIdx <= Len(search_folders)
    /\ LET folder_name == search_folders[folderIdx]
           msgs        == mailbox[folder_name]
       IN  \E fault \in FolderFaults(Len(msgs)) :
             LET selected == fault.kind # "select_fail"
                 pool == IF selected
                         THEN PoolFrom(1, msgs,
                                       IF fault.kind = "search_raise" THEN fault.at ELSE 0,
                                       IF fault.kind = "fetch_fail" THEN fault.at ELSE 0,
                                       SentMessageId, SentTo, sent.subject, sent.date)
                         ELSE <<>>
             IN  /\ selectLog' = Append(selectLog, folder_name)
                 /\ connSelected' = IF selected THEN Some(folder_name) ELSE connSelected
                 /\ faults' = IF fault.kind = "none" THEN faults ELSE faults + 1
                 /\ IF pool # <<>>
                    THEN /\ found_replies' = pool
                         /\ result' = select_best_reply(pool, sent.date)
                         /\ frPc' = "done"
                         /\ UNCHANGED folderIdx
                    ELSE /\ folderIdx' = folderIdx + 1
                         /\ UNCHANGED <<found_replies, result, frPc>>
    /\ UNCHANGED <<sent, listing, mailbox, search_folders>>
    /\ UNCHANGED <<exVars, mainVars, retryVars, xlVars, sentVars>>

\* line 324: the loop is over, return None
find_reply_end ==
    /\ frPc = "sweep"
    /\ folderIdx > Len(search_folders)
    /\ frPc' = "done"
    /\ result' = None
    /\ UNCHANGED <<sent, listing, mailbox, search_folders, folderIdx, found_replies,
                   selectLog, connSelected, faults>>
    /\ UNCHANGED <<exVars, mainVars, retryVars, xlVars, sentVars>>

NextCorr == find_reply_begin \/ find_reply_folder \/ find_reply_end

SpecCorr == InitCorr /\ [][NextCorr]_vars

-----------------------------------------------------------------------------
(* Text.  A text is a sequence of characters; a run of letters and digits  *)
(* that holds none of the characters the code looks at ("Price usd",       *)
(* "100") is kept as one element.                                          *)
Q  == "\""
BS == "\\"
NL == "\n"
SP == " "

IsSpace(c) == c \in {SP, NL}

\* str.strip(), str.rstrip()
RECURSIVE lstrip(_)
lstrip(s) == IF s # <<>> /\ IsSpace(Head(s)) THEN lstrip(Tail(s)) ELSE s

RECURSIVE rstrip(_)
rstrip(s) ==
    IF s # <<>> /\ IsSpace(s[Len(s)]) THEN rstrip(SubSeq(s, 1, Len(s) - 1)) ELSE s

strip(s) == lstrip(rstrip(s))

\* str.count(c)
count(s, c) == Cardinality({i \in 1..Len(s) : s[i] = c})

\* text[i:] (i counted from 1)
From(s, i) == SubSeq(s, i, Len(s))

\* str.rfind(c), 0 when c does not occur
rfind(s, c) ==
    IF \E i \in 1..Len(s) : s[i] = c
    THEN CHOOSE i \in 1..Len(s) : s[i] = c /\ \A j \in (i + 1)..Len(s) : s[j] # c
    ELSE 0

\* the first position >= i of s that holds no white space, Len(s) + 1 if none
RECURSIVE SkipWs(_, _)
SkipWs(s, i) == IF i <= Len(s) /\ IsSpace(s[i]) THEN SkipWs(s, i + 1) ELSE i

-----------------------------------------------------------------------------
(* json.loads.  A value is [t, v]: "str" (v the characters), "num" (v the  *)
(* digits), "null", "bool", "obj" (v the members [k, val] in order of      *)
(* appearance), "arr" (v the elements).                                    *)
Val(t, v) == [t |-> t, v |-> v]
JNull == Val("null", <<>>)
JStr(cs) == Val("str", cs)
JObj(members) == Val("obj", members)

\* in the place of a value: an exception left the function
RaisedVal == Val("raised", <<>>)

NumberToks == {"100", "0", "7"}

Fail == [ok |-> FALSE, val |-> JNull, next |-> 0]
Ok(val, next) == [ok |-> TRUE, val |-> val, next |-> next]

\* the number of backslashes that stand in a row right before position p, none
\* of them before position i
BsRun(s, i, p) ==
    CHOOSE r \in 0..(p - i) :
        /\ \A k \in (p - r)..(p - 1) : s[k] = BS
        /\ (p - r - 1 < i \/ s[p - r - 1] # BS)

Escaped(s, i, p) == BsRun(s, i, p) % 2 = 1

\* what a raw line break (strict mode) and an unknown escape stand for
BadChar == <<"", "">>

\* what the character at p of a string that starts at i stands for
StringChar(s, i, p) ==
    IF Escaped(s, i, p)
    THEN (IF s[p] \in {Q, BS, "/"} THEN <<s[p]>>
          ELSE IF s[p] = "n" THEN <<NL>> ELSE BadChar)
    ELSE IF s[p] = BS THEN <<>>
    ELSE IF s[p] = NL THEN BadChar
    ELSE <<s[p]>>

\* a string from the character after its opening quote, up to the first quote
\* that no backslash escapes
ParseString(s, i) ==
    The({ IF closing = {} THEN Fail
          ELSE The({ IF \E n \in 1..Len(parts) : parts[n] = BadChar THEN Fail
                     ELSE Ok(JStr(Cat(parts)), Len(parts) + i + 1) :
                     parts \in {[n \in 1..(MinOf(closing) - i) |->
                                    StringChar(s, i, i + n - 1)]} }) :
          closing \in {{j \in i..Len(s) : s[j] = Q /\ ~Escaped(s, i, j)}} })

RECURSIVE ParseValue(_, _)
RECURSIVE ParseMembers(_, _, _)
RECURSIVE ParseElements(_, _, _)

\* the members of an object from the first character of a key: the key k, the
\* colon, the value v, and a comma or the closing brace
ParseMembers(s, i, acc) ==
    IF i > Len(s) \/ s[i] # Q THEN Fail
    ELSE The({ IF ~k.ok \/ SkipWs(s, k.next) > Len(s) \/ s[SkipWs(s, k.next)] # ":"
               THEN Fail
               ELSE The({ IF ~v.ok \/ SkipWs(s, v.next) > Len(s) THEN Fail
                          ELSE IF s[SkipWs(s, v.next)] = ","
                               THEN ParseMembers(s, SkipWs(s, SkipWs(s, v.next) + 1),
                                                 Append(acc, [k |-> k.val.v, val |-> v.val]))
                          ELSE IF s[SkipWs(s, v.next)] = "}"
                               THEN Ok(JObj(Append(acc, [k |-> k.val.v, val |-> v.val])),
                                       SkipWs(s, v.next) + 1)
                          ELSE Fail :
                          v \in {ParseValue(s, SkipWs(s, SkipWs(s, k.next) + 1))} }) :
               k \in {ParseString(s, i + 1)} })

\* the elements of an array from the first character of an element
ParseElements(s, i, acc) ==
    The({ IF ~v.ok \/ SkipWs(s, v.next) > Len(s) THEN Fail
          ELSE IF s[SkipWs(s, v.next)] = ","
               THEN ParseElements(s, SkipWs(s, SkipWs(s, v.next) + 1), Append(acc, v.val))
          ELSE IF s[SkipWs(s, v.next)] = "]"
               THEN Ok(Val("arr", Append(acc, v.val)), SkipWs(s, v.next) + 1)
          ELSE Fail :
          v \in {ParseValue(s, i)} })

\* a value from its first character
ParseValue(s, i) ==
    IF i > Len(s) THEN Fail
    ELSE IF s[i] = "{"
         THEN LET j == SkipWs(s, i + 1)
              IN  IF j <= Len(s) /\ s[j] = "}" THEN Ok(JObj(<<>>), j + 1)
                  ELSE ParseMembers(s, j, <<>>)
    ELSE IF s[i] = "["
         THEN LET j == SkipWs(s, i + 1)
              IN  IF j <= Len(s) /\ s[j] = "]" THEN Ok(Val("arr", <<>>), j + 1)
                  ELSE ParseElements(s, j, <<>>)
    ELSE IF s[i] = Q THEN ParseString(s, i + 1)
    ELSE IF s[i] \in NumberToks THEN Ok(Val("num", <<s[i]>>), i + 1)
    ELSE IF s[i] = "null" THEN Ok(JNull, i + 1)
    ELSE IF s[i] \in {"true", "false"} THEN Ok(Val("bool", <<s[i]>>), i + 1)
    ELSE Fail

\* json.loads(text): None stands for JSONDecodeError
json_loads(s) ==
    The({ IF r.ok /\ SkipWs(s, r.next) = Len(s) + 1 THEN Some(r.val) ELSE None :
          r \in {ParseValue(s, SkipWs(s, 1))} })

\* dict.get(key): the value of the last member of that key, None if absent
dict_get(obj, key) ==
    LET I == {i \in 1..Len(obj.v) : obj.v[i].k = key}
    IN  IF I = {} THEN None
        ELSE Some(obj.v[CHOOSE i \in I : \A j \in I : j <= i].val)

\* the keys of a dict, in the order of their first appearance
dict_keys(obj) ==
    LET firsts == {i \in 1..Len(obj.v) : \A j \in 1..(i - 1) : obj.v[j].k # obj.v[i].k}
        idxs == Ascending(firsts)
    IN  [n \in 1..Len(idxs) |-> obj.v[idxs[n]].k]

-----------------------------------------------------------------------------
(* LMStudioClient: the parsing of the model's answer.                      *)

\* re.sub(r'//.*?$', '', text, flags=re.MULTILINE): a character goes when a
\* "//" stands before it on its line
StripLineComments(s) ==
    IF \A i \in 1..Len(s) : s[i] # "/" THEN s
    ELSE Cat([p \in 1..Len(s) |->
               IF \E q \in 1..p :
                      /\ q + 1 <= Len(s) /\ s[q] = "/" /\ s[q + 1] = "/"
                      /\ \A k \in q..p : s[k] # NL
               THEN <<>> ELSE <<s[p]>>])

\* re.sub(r'/\*.*?\*/', '', text, flags=re.DOTALL): from the first "/*" to
\* the nearest "*/" behind it, and on from there
RECURSIVE StripBlockComments(_)
StripBlockComments(s) ==
    LET starts == {q \in 1..(Len(s) - 3) :
                      /\ s[q] = "/" /\ s[q + 1] = "*"
                      /\ \E j \in (q + 2)..(Len(s) - 1) : s[j] = "*" /\ s[j + 1] = "/"}
    IN  IF starts = {} THEN s
        ELSE LET q == MinOf(starts)
                 j == MinOf({j \in (q + 2)..(Len(s) - 1) : s[j] = "*" /\ s[j + 1] = "/"})
             IN  SubSeq(s, 1, q - 1) \o StripBlockComments(From(s, j + 2))

\* re.sub(r'\s+', ' ', text)
CollapseSpace(s) ==
    Cat([p \in 1..Len(s) |->
           IF ~IsSpace(s[p]) THEN <<s[p]>>
           ELSE IF p > 1 /\ IsSpace(s[p - 1]) THEN <<>> ELSE <<SP>>])

clean_response_text(text) ==
    strip(CollapseSpace(StripBlockComments(StripLineComments(text))))

\* repr() of a string: single quotes, backslash and line break escaped
PyEscape(cs) ==
    Cat([p \in 1..Len(cs) |->
           IF cs[p] = BS THEN <<BS, BS>>
           ELSE IF cs[p] = NL THEN <<BS, "n">> ELSE <<cs[p]>>])

\* str() of a parsed value that is not a string: the digits of a number,
\* True/False, None, and the repr of a list or dict
RECURSIVE py_repr(_)
RECURSIVE py_repr_join(_, _, _)
py_repr_join(obj, items, isDict) ==
    IF items = <<>> THEN <<>>
    ELSE (IF isDict
          THEN <<"'">> \o PyEscape(Head(items)) \o <<"'", ":", SP>>
                 \o py_repr(dict_get(obj, Head(items))[1])
          ELSE py_repr(Head(items)))
         \o (IF Len(items) > 1 THEN <<",", SP>> ELSE <<>>)
         \o py_repr_join(obj, Tail(items), isDict)

py_repr(val) ==
    CASE val.t = "str"  -> <<"'">> \o PyEscape(val.v) \o <<"'">>
      [] val.t = "num"  -> val.v
      [] val.t = "bool" -> IF val.v = <<"true">> THEN <<"True">> ELSE <<"False">>
      [] val.t = "null" -> <<"None">>
      [] val.t = "arr"  -> <<"[">> \o py_repr_join(val, val.v, FALSE) \o <<"]">>
      [] val.t = "obj"  -> <<"{">> \o py_repr_join(val, dict_keys(val), TRUE) \o <<"}">>

\* "not v.strip()"
IsBlank(cs) == \A i \in 1..Len(cs) : IsSpace(cs[i])

\* the value _try_parse_json stores for one field of target_fields
FieldValue(data, field) ==
    LET got == dict_get(data, field)
    IN  IF got = None THEN <<>>
        ELSE IF got[1].t = "str" THEN got[1].v
        ELSE IF got[1].t = "null" THEN <<>>
        ELSE py_repr(got[1])

\* the record of _try_parse_json: one [field, value] per field, in the order
\* of the fields
Project(data, fields) ==
    [i \in 1..Len(fields) |-> [field |-> fields[i], value |-> FieldValue(data, fields[i])]]

AllBlank(rec) == \A i \in 1..Len(rec) : IsBlank(rec[i].value)

\* a projection that keeps the parsed object's own keys, in its own order
try_parse_json_own_keys(json_text, target_fields) ==
    IF IsBlank(json_text) THEN None
    ELSE The({ IF data = None \/ data[1].t # "obj" THEN None
               ELSE The({ IF AllBlank(rec) THEN None ELSE Some(rec) :
                          rec \in {Project(data[1], dict_keys(data[1]))} }) :
               data \in {json_loads(clean_response_text(json_text))} })

\* a projection without the test that some field is not blank
try_parse_json_keep_blank(json_text, target_fields) ==
    IF IsBlank(json_text) THEN None
    ELSE The({ IF data = None \/ data[1].t # "obj" THEN None
               ELSE Some(Project(data[1], target_fields)) :
               data \in {json_loads(clean_response_text(json_text))} })

\* _try_parse_json: None, or the record of the target fields
try_parse_json(json_text, target_fields) ==
    IF IsBlank(json_text) THEN None
    ELSE The({ IF data = None \/ data[1].t # "obj" THEN None
               ELSE The({ IF AllBlank(rec) THEN None ELSE Some(rec) :
                          rec \in {Project(data[1], target_fields)} }) :
               data \in {json_loads(clean_response_text(json_text))} })

\* _try_fix_truncated_json: None, or the candidate closed
try_fix_truncated_json(candidate) ==
    The({ IF json_loads(c2) # None THEN Some(c2) ELSE None :
          c2 \in { IF count(c1, "{") > count(c1, "}") THEN Append(c1, "}") ELSE c1 :
                   c1 \in { IF count(c0, Q) % 2 # 0 THEN Append(c0, Q) ELSE c0 :
                            c0 \in {rstrip(candidate)} } } })

\* the scan of _extract_json_objects from character i on, taken from brace to
\* brace: the substrings from a "{" met at depth 0 to the "}" that brings the
\* depth back to 0 (the depth is not kept from going below 0)
RECURSIVE BraceScan(_, _, _, _)
BraceScan(text, i, brace_count, start_pos) ==
    LET braces == {p \in i..Len(text) : text[p] \in {"{", "}"}}
    IN  IF braces = {} THEN <<>>
        ELSE LET p == MinOf(braces)
             IN  IF text[p] = "{"
                 THEN BraceScan(text, p + 1, brace_count + 1,
                                IF brace_count = 0 THEN p ELSE start_pos)
                 ELSE IF brace_count - 1 = 0 /\ start_pos # 0
                      THEN <<SubSeq(text, start_pos, p)>> \o BraceScan(text, p + 1, 0, 0)
                      ELSE BraceScan(text, p + 1, brace_count - 1, start_pos)

\* _extract_json_objects: the scan's substrings, or when there are none the
\* text from the last "{" on, closed by _try_fix_truncated_json
extract_json_objects(text) ==
    The({ IF json_objects # <<>> THEN json_objects
          ELSE IF rfind(text, "{") = 0 THEN <<>>
          ELSE The({ IF fixed # None /\ fixed[1] # <<>> THEN <<fixed[1]>> ELSE <<>> :
                     fixed \in {try_fix_truncated_json(
                                   strip(From(text, rfind(text, "{"))))} }) :
          json_objects \in {BraceScan(text, 1, 0, 0)} })

\* the keywords of _extract_json_after_keywords; the three Russian words are
\* written in Latin letters, the fifth keyword is the opening brace itself
keywords == <<"json", "rezultat", "otvet", "izvlechennye dannye", "{">>

LowerTok(c) == IF c \in {"JSON", "Json"} THEN "json" ELSE c

\* where a match of keyword kw that starts at character i ends (the position
\* after it), 0 if there is none: the word, white space, a colon; or the brace
KwEnd(text, i, kw) ==
    IF i > Len(text) THEN 0
    ELSE IF kw = "{" THEN (IF text[i] = "{" THEN i + 1 ELSE 0)
    ELSE IF LowerTok(text[i]) # kw THEN 0
    ELSE LET c == SkipWs(text, i + 1)
         IN  IF c <= Len(text) /\ text[c] = ":" THEN c + 1 ELSE 0

\* the first "}" after position j, 0 if there is none
FirstClose(text, j) ==
    LET C == {e \in (j + 1)..Len(text) : text[e] = "}"}
    IN  IF C = {} THEN 0 ELSE MinOf(C)

\* re.findall(keyword\s*(\{.*?\}), text) from character i on: after the keyword
\* and white space a "{", up to the first "}" behind it
RECURSIVE KwFindAll(_, _, _)
KwFindAll(text, i, kw) ==
    LET hits == {p \in i..Len(text) :
                    /\ KwEnd(text, p, kw) # 0
                    /\ SkipWs(text, KwEnd(text, p, kw)) <= Len(text)
                    /\ text[SkipWs(text, KwEnd(text, p, kw))] = "{"
                    /\ FirstClose(text, SkipWs(text, KwEnd(text, p, kw))) # 0}
    IN  IF hits = {} THEN <<>>
        ELSE LET j == SkipWs(text, KwEnd(text, MinOf(hits), kw))
                 e == FirstClose(text, j)
             IN  <<SubSeq(text, j, e)>> \o KwFindAll(text, e + 1, kw)

\* re.search(keyword\s*(.*), text): the text behind the first match, stripped;
\* None without a match
KwRemaining(text, kw) ==
    LET I == {i \in 1..Len(text) : KwEnd(text, i, kw) # 0}
    IN  IF I = {} THEN None
        ELSE Some(strip(From(text, SkipWs(text, KwEnd(text, MinOf(I), kw)))))

\* _extract_json_after_keywords
RECURSIVE extract_json_after_keywords_from(_, _)
extract_json_after_keywords_from(text, n) ==
    IF n > Len(keywords) THEN <<>>
    ELSE LET remaining == KwRemaining(text, keywords[n])
         IN  KwFindAll(text, 1, keywords[n])
               \o (IF remaining = None THEN <<>> ELSE extract_json_objects(remaining[1]))
               \o extract_json_after_keywords_from(text, n + 1)

extract_json_after_keywords(text) == extract_json_after_keywords_from(text, 1)

\* the first candidate of the list that _try_parse_json accepts, None if none
RECURSIVE FirstParsed(_, _)
FirstParsed(candidates, target_fields) ==
    IF candidates = <<>> THEN None
    ELSE The({ IF parsed # None THEN parsed
               ELSE FirstParsed(Tail(candidates), target_fields) :
               parsed \in {try_parse_json(Head(candidates), target_fields)} })

\* the three strategies of _parse_response
Layer1(text, target_fields) == FirstParsed(extract_json_objects(text), target_fields)
Layer2(text, target_fields) == try_parse_json(clean_response_text(text), target_fields)
Layer3(text, target_fields) == FirstParsed(extract_json_after_keywords(text), target_fields)

\* _parse_response as a whole
parse_response(text, target_fields) ==
    IF IsBlank(text) THEN None
    ELSE The({ IF first # None THEN first
               ELSE The({ IF second # None THEN second
                          ELSE Layer3(text, target_fields) :
                          second \in {Layer2(text, target_fields)} }) :
               first \in {Layer1(text, target_fields)} })

-----------------------------------------------------------------------------
(* ExcelProcessor: the unwrapping of an API answer.                        *)

\* the index 0 as a key
Index0 == <<"[0]">>

\* value[key] of Python on a parsed value: <<v>>, "KeyError" (also standing
\* for IndexError) or "TypeError"
Subscript(val, key) ==
    CASE val.t = "obj" ->
           IF key = Index0 \/ dict_get(val, key) = None THEN "KeyError"
           ELSE dict_get(val, key)
      [] val.t = "arr" ->
           IF key # Index0 THEN "TypeError"
           ELSE IF val.v = <<>> THEN "KeyError" ELSE Some(val.v[1])
      [] val.t = "str" ->
           IF key # Index0 THEN "TypeError"
           ELSE IF val.v = <<>> THEN "KeyError" ELSE Some(JStr(<<val.v[1]>>))
      [] OTHER -> "TypeError"

\* value[keys[1]][keys[2]]..: the first error ends the walk
RECURSIVE SubscriptPath(_, _)
SubscriptPath(val, keys) ==
    IF keys = <<>> THEN Some(val)
    ELSE The({ IF step = "KeyError" \/ step = "TypeError" THEN step
               ELSE SubscriptPath(step[1], Tail(keys)) :
               step \in {Subscript(val, Head(keys))} })

\* the two branches of _extract_text_from_api_response after the test of the
\* substrings: a body that is not JSON, a missing key and an empty list give
\* the string back; a TypeError is not caught, nor is the one of len() of a
\* text that has no length
UnwrapBy(response_str, keys) ==
    The({ IF api = None THEN JStr(response_str)
          ELSE The({ IF got = "KeyError" THEN JStr(response_str)
                     ELSE IF got = "TypeError" THEN RaisedVal
                     ELSE IF got[1].t \in {"num", "null", "bool"} THEN RaisedVal
                     ELSE got[1] :
                     got \in {SubscriptPath(api[1], keys)} }) :
          api \in {json_loads(response_str)} })

\* _extract_text_from_api_response: the text content (a parsed value, the
\* string itself when it is no envelope), or RaisedVal
extract_text_from_api_response(response_str) ==
    IF IsInfix(<<Q, "choices", Q>>, response_str) /\ IsInfix(<<Q, "text", Q>>, response_str)
    THEN UnwrapBy(response_str, <<<<"choices">>, Index0, <<"text">>>>)
    ELSE IF /\ IsInfix(<<Q, "choices", Q>>, response_str)
            /\ IsInfix(<<Q, "message", Q>>, response_str)
    THEN UnwrapBy(response_str, <<<<"choices">>, Index0, <<"message">>, <<"content">>>>)
    ELSE JStr(response_str)

-----------------------------------------------------------------------------
(* The inputs of one analyze_email: the fields asked for, and the HTTP     *)
(* answer of the text-generation service.                                  *)

\* one member of an object as the model writes it: the key, the value's
\* characters as written (escapes included), and whether the value is quoted
Mem(k, v, quoted) == [k |-> k, v |-> v, quoted |-> quoted]

RenderMember(m) ==
    <<Q, m.k, Q, ":", SP>> \o (IF m.quoted THEN <<Q>> \o m.v \o <<Q>> ELSE m.v)

RECURSIVE RenderMembers(_)
RenderMembers(ms) ==
    IF ms = <<>> THEN <<>>
    ELSE RenderMember(Head(ms)) \o (IF Len(ms) > 1 THEN <<",", SP>> ELSE <<>>)
           \o RenderMembers(Tail(ms))

RenderObject(ms) == <<"{">> \o RenderMembers(ms) \o <<"}">>

\* the objects the model may answer with
AnswerObjects ==
    { <<Mem("Price usd", <<"100">>, TRUE), Mem("Payment", <<"PayPal">>, TRUE)>>,
      <<Mem("Payment", <<"Wire">>, TRUE)>>,
      <<Mem("Price usd", <<>>, TRUE), Mem("Payment", <<SP>>, TRUE)>>,
      <<Mem("x", <<"1">>, TRUE), Mem("Payment", <<"Pay">>, TRUE),
        Mem("Price usd", <<"100">>, TRUE)>>,
      <<Mem("Payment", <<"say", SP, BS, Q, "hi">>, TRUE)>>,
      <<Mem("Payment", <<"7">>, FALSE), Mem("Comments", <<"null">>, FALSE)>>,
      <<Mem("Comments", <<"a", SP, "}", SP, "b">>, TRUE)>>,
      <<Mem("Comments", <<"see", SP, "http:", "/", "/", "x.com">>, TRUE)>> }

\* what precedes the object in the answer
Prefixes ==
    { <<>>,
      <<"JSON", ":", SP>>,
      <<"{", "bad", "}", SP>>,
      <<"{", "{", "bad", "}", "}", SP>>,
      <<"{", Q, "x", Q, ":", SP, Q, "1", Q, "}", NL>>,
      <<"}", SP>>,
      <<"Sure", NL>> }

\* how many characters the length limit has cut from the end of the answer
MaxCut == 2

\* json.dumps of a string, without the quotes around it
JsonEscape(cs) ==
    Cat([p \in 1..Len(cs) |->
           IF cs[p] \in {Q, BS} THEN <<BS, cs[p]>>
           ELSE IF cs[p] = NL THEN <<BS, "n">> ELSE <<cs[p]>>])

\* the response envelopes around a text: the two shapes of the service, a
\* body without choices, a body whose choices is null, a chat-style body that
\* also holds the word "text", and a completion-style body that lost its end
Envelope(shape, text) ==
    CASE shape = "completion" ->
           <<"{", Q, "choices", Q, ":", "[", "{", Q, "text", Q, ":", Q>>
             \o JsonEscape(text) \o <<Q, "}", "]", "}">>
      [] shape = "chat" ->
           <<"{", Q, "choices", Q, ":", "[", "{", Q, "message", Q, ":", "{", Q,
             "content", Q, ":", Q>> \o JsonEscape(text) \o <<Q, "}", "}", "]", "}">>
      [] shape = "empty" -> <<"{", Q, "choices", Q, ":", "[", "]", "}">>
      [] shape = "mistyped" ->
           <<"{", Q, "choices", Q, ":", "null", ",", Q, "text", Q, ":", Q>>
             \o JsonEscape(text) \o <<Q, "}">>
      [] shape = "chat_typed" ->
           <<"{", Q, "choices", Q, ":", "[", "{", Q, "message", Q, ":", "{", Q,
             "content", Q, ":", Q>> \o JsonEscape(text)
             \o <<Q, "}", ",", Q, "type", Q, ":", Q, "text", Q, "}", "]", "}">>
      [] shape = "broken" ->
           <<"{", Q, "choices", Q, ":", "[", "{", Q, "text", Q, ":", Q>>
             \o JsonEscape(text) \o <<Q, "}", "]">>
      [] OTHER -> text

Schemas ==
    { << <<"Price usd">>, <<"Payment">>, <<"Comments">> >>,
      << <<"Payment">>, <<"Price usd">> >> }

\* the answer text: prefix, object, cut, and possibly an envelope of its own
AnswerText(prefix, obj, cut, wrap) ==
    LET whole == prefix \o RenderObject(obj)
    IN  Envelope(wrap, SubSeq(whole, 1, Len(whole) - cut))

Gen(f, o, p, c, w, h) ==
    [fields |-> f, obj |-> o, prefix |-> p, cut |-> c, wrap |-> w, http |-> h]

\* the inputs: every answer text in a completion-style HTTP answer; short
\* answers that are envelopes themselves; short answers in the other HTTP
\* answers (chat-style, an empty choices list, a failed request)
Gens ==
    {Gen(f, o, p, c, "none", "completion") :
        f \in Schemas, o \in AnswerObjects, p \in Prefixes, c \in 0..MaxCut}
    \cup {Gen(f, o, <<>>, 0, w, h) :
        f \in Schemas, o \in {x \in AnswerObjects : Len(x) <= 2 /\ x[1].k \in {"Price usd", "Payment"}},
        w \in {"none", "completion", "chat"},
        h \in {"completion", "chat", "empty", "error", "mistyped", "chat_typed", "broken"}}

\* the body of the HTTP answer
HttpBody(g) == Envelope(g.http, AnswerText(g.prefix, g.obj, g.cut, g.wrap))

\* result.get("choices", [{}])[0].get("text", ""): <<text>>, or Raised when the
\* body is not JSON or the path does not exist (an empty list, no dict)
ChoicesText(body) ==
    The({ IF parsed = None \/ parsed[1].t # "obj" THEN Raised
          ELSE The({ IF choices = None THEN Some(<<>>)
                     ELSE IF choices[1].t # "arr" \/ choices[1].v = <<>> THEN Raised
                     ELSE IF choices[1].v[1].t # "obj" THEN Raised
                     ELSE The({ IF text = None THEN Some(<<>>) ELSE Some(text[1].v) :
                                text \in {dict_get(choices[1].v[1], <<"text">>)} }) :
                     choices \in {dict_get(parsed[1], <<"choices">>)} }) :
          parsed \in {json_loads(body)} })

InitExtract ==
    /\ CorrIdle /\ MainIdle /\ RetryIdle /\ XlIdle /\ SentIdle
    /\ gen \in Gens
    /\ rawText = <<>>
    /\ exPc = "post"
    /\ extracted = None
    /\ text_content = None

\* analyze_email up to the call of _parse_response: the request, the status
\* check, the decoding of the body and the reading of choices[0].text; every
\* exception ends the call with None
analyze_email_post ==
    /\ exPc = "post"
    /\ \E text \in {IF gen.http = "error" THEN Raised ELSE ChoicesText(HttpBody(gen))} :
           IF text = Raised
           THEN /\ exPc' = "done"
                /\ rawText' = <<>>
           ELSE /\ rawText' = text[1]
                /\ exPc' = IF IsBlank(text[1]) THEN "done" ELSE "layer1"
    /\ extracted' = None
    /\ UNCHANGED <<gen, text_content, corrVars, mainVars, retryVars, xlVars, sentVars>>

\* _parse_response, strategy 1: the brace-delimited candidates
parse_layer1 ==
    /\ exPc = "layer1"
    /\ extracted' = Layer1(rawText, gen.fields)
    /\ exPc' = IF extracted' # None THEN "done" ELSE "layer2"
    /\ UNCHANGED <<gen, rawText, text_content, corrVars, mainVars, retryVars, xlVars, sentVars>>

\* strategy 2: the whole text, cleaned
parse_layer2 ==
    /\ exPc = "layer2"
    /\ extracted' = Layer2(rawText, gen.fields)
    /\ exPc' = IF extracted' # None THEN "done" ELSE "layer3"
    /\ UNCHANGED <<gen, rawText, text_content, corrVars, mainVars, retryVars, xlVars, sentVars>>

\* strategy 3: the candidates behind the keywords; then the call returns
parse_layer3 ==
    /\ exPc = "layer3"
    /\ extracted' = Layer3(rawText, gen.fields)
    /\ exPc' = "done"
    /\ UNCHANGED <<gen, rawText, text_content, corrVars, mainVars, retryVars, xlVars, sentVars>>

\* parse_lm_studio_response given the body of the HTTP answer, up to the
\* unwrapping of the text content
unwrap_api_response ==
    /\ exPc # "off"
    /\ gen.http # "error"
    /\ text_content = None
    /\ text_content' = Some(extract_text_from_api_response(HttpBody(gen)))
    /\ UNCHANGED <<gen, rawText, exPc, extracted, corrVars, mainVars, retryVars, xlVars, sentVars>>

NextExtract ==
    \/ analyze_email_post \/ parse_layer1 \/ parse_layer2 \/ parse_layer3
    \/ unwrap_api_response

SpecExtract == InitExtract /\ [][NextExtract]_vars

-----------------------------------------------------------------------------
(* IMAPClient.find_reply of src/src/imap_client.py: five searches in       *)
(* INBOX, each tried only while nothing was found, the newest hit of a     *)
(* search fetched and returned as it is.                                   *)

\* the letters of the words that occur in subjects, for the searches that
\* compare substrings
Spell(w) == CASE w = "offer" -> <<"o", "f", "f", "e", "r">>
              [] w = "price" -> <<"p", "r", "i", "c", "e">>
              [] w = "list"  -> <<"l", "i", "s", "t">>
              [] w = "hello" -> <<"h", "e", "l", "l", "o">>
              [] w = "re:"   -> <<"r", "e", ":">>
              [] w = "fwd:"  -> <<"f", "w", "d", ":">>
              [] OTHER -> <<w>>

\* the lowered subject as a string: its words joined by single spaces
LowerChars(subject) ==
    Cat([i \in 1..Len(subject) |->
           (IF i > 1 THEN <<SP>> ELSE <<>>) \o Spell(LowerWord(subject[i]))])

RECURSIVE normalize_subject(_)
\* utils.normalize_subject: leading RE:, FWD:, FW: removed until none is
\* left, then lowered
normalize_subject(subject) ==
    IF subject # <<>> /\ LowerWord(Head(subject)) \in {"re:", "fwd:", "fw:"}
    THEN normalize_subject(Tail(subject))
    ELSE LowerChars(subject)

\* utils.normalize_email on the address literals
normalize_email(email) == LowerAddr(email)

\* the store's HEADER, FROM and SUBJECT keys match substrings without case
HeaderInReplyTo(m, msg_id) == m.in_reply_to = msg_id
HeaderReferences(m, id) == \E i \in 1..Len(m.references) : m.references[i] = id
FromMatches(m, from_addr) == AddrIn(from_addr, LowerAddr(m.from))
SubjectContains(m, chars) == IsInfix(chars, LowerChars(m.subject))

\* conn.search: the sequence numbers of the messages of INBOX that are among
\* the matching ones
SearchInbox(msgs, matching) == Ascending({i \in 1..Len(msgs) : msgs[i] \in matching})

\* IMAPClient._fetch_first_email: the last id of the answer; lost is the
\* message whose FETCH the store does not answer with OK (0: none).  The
\* body of the message is left out: nothing below depends on it.
fetch_first_email(msgs, lost, ids) ==
    IF ids = <<>> \/ ids[Len(ids)] = lost THEN None
    ELSE LET m == msgs[ids[Len(ids)]]
         IN  Some([from |-> m.from, subject |-> m.subject, date |-> m.date])

\* what the store makes of SINCE "<the first 16 characters of the Date
\* header>", which is not a date of the protocol: it answers BAD (the library
\* raises), it answers NO, or it reads the day out of it
SinceAnswers == {"bad", "no", "lenient"}

\* one run of find_reply on a live connection; listed: the LIST answer names
\* INBOX, without which _select_folder is False and find_reply returns None
find_reply(sent_email_data, msgs, listed, lost, since) ==
    LET msg_id     == sent_email_data.message_id
        references == sent_email_data.references
        from_addr  == normalize_email(sent_email_data.to)
        norm       == sent_email_data.normalized_subject
        by1 == IF msg_id # ""
               THEN fetch_first_email(msgs, lost,
                        SearchInbox(msgs, {m \in SeqToSet(msgs) : HeaderInReplyTo(m, msg_id)}))
               ELSE None
        by2 == IF by1 = None /\ references # <<>>
               THEN fetch_first_email(msgs, lost,
                        SearchInbox(msgs, {m \in SeqToSet(msgs) :
                            HeaderReferences(m, references[Len(references)])}))
               ELSE by1
        by3 == IF by2 = None
               THEN fetch_first_email(msgs, lost,
                        SearchInbox(msgs, {m \in SeqToSet(msgs) :
                            /\ FromMatches(m, from_addr)
                            /\ SubjectContains(m, LowerChars(sent_email_data.subject))}))
               ELSE by2
        by4 == IF by3 = None /\ Len(norm) > 5
               THEN fetch_first_email(msgs, lost,
                        SearchInbox(msgs, {m \in SeqToSet(msgs) :
                            /\ FromMatches(m, from_addr)
                            /\ SubjectContains(m, SubSeq(norm, 1, 6))}))
               ELSE by3
    IN  IF ~listed THEN None
        ELSE IF by4 = None /\ sent_email_data.date # NoDate
        THEN CASE since = "bad" -> Raised
               [] since = "no"  -> None
               [] OTHER ->
                    fetch_first_email(msgs, lost,
                        SearchInbox(msgs, {m \in SeqToSet(msgs) :
                            /\ FromMatches(m, from_addr)
                            /\ Day(m.idate) >= Day(sent_email_data.date)}))
        ELSE by4

\* utils.retry_with_backoff: attempts 0 .. max_retries - 1
max_retries == 3

\* what may befall one attempt: nothing, a command that raises on a
\* connection that stays usable, the loss of the connection
AttemptFaults == {"none", "raise", "drop"}

-----------------------------------------------------------------------------
(* main(): the loop "for sent in sent_emails" and what follows it.         *)

MaxSent  == 2     \* send-events of a run
MaxInbox == 2     \* messages in INBOX

\* what get_sent_emails has loaded: with a Message-ID, with References only,
\* with neither; the third has a subject longer than five characters
MainSentRecords ==
    {[message_id |-> "<a>", references |-> <<>>, to |-> "Bob@X.com",
      subject |-> <<"Offer">>, normalized_subject |-> normalize_subject(<<"Offer">>),
      date |-> SentAt],
     [message_id |-> "", references |-> <<"<y>", "<z>">>, to |-> "Bob@X.com",
      subject |-> <<"Re:", "Offer">>,
      normalized_subject |-> normalize_subject(<<"Re:", "Offer">>), date |-> SentAt],
     [message_id |-> "", references |-> <<>>, to |-> "Bob@X.com",
      subject |-> <<"Price", "list">>,
      normalized_subject |-> normalize_subject(<<"Price", "list">>), date |-> SentAt]}

\* the messages INBOX may hold: the reply to "<a>" of the next day and the
\* same dated before the sent message; an older message of the thread of
\* "<z>"; mail of the recipient about the offer and about the price, from
\* before the sent message; later mail of the recipient about something else;
\* mail of somebody else; the reply to "<a>" that came a day after the 30
\* days were over
MainMsgKinds ==
    {[in_reply_to |-> "<a>", references |-> <<"<a>">>, from |-> "Bob <Bob@X.com>",
      subject |-> <<"Re:", "Offer">>, date |-> SentAt + 1, idate |-> SentAt + 1],
     [in_reply_to |-> "<a>", references |-> <<"<a>">>, from |-> "Bob <Bob@X.com>",
      subject |-> <<"Re:", "Offer">>,
      date |-> SentAt + (WindowDays + 1) * SlotsPerDay,
      idate |-> SentAt + (WindowDays + 1) * SlotsPerDay],
     [in_reply_to |-> "<a>", references |-> <<"<a>">>, from |-> "Bob <Bob@X.com>",
      subject |-> <<"Re:", "Offer">>, date |-> SentAt - 1, idate |-> SentAt + 1],
     [in_reply_to |-> "<y>", references |-> <<"<y>", "<z>">>, from |-> "eve@y.org",
      subject |-> <<"Hello">>, date |-> SentAt - 2, idate |-> SentAt - 2],
     [in_reply_to |-> "", references |-> <<>>, from |-> "Bob <Bob@X.com>",
      subject |-> <<"OFFER">>, date |-> SentAt - 2, idate |-> SentAt - 2],
     [in_reply_to |-> "", references |-> <<>>, from |-> "Bob <Bob@X.com>",
      subject |-> <<"Price", "Hello">>, date |-> SentAt - 2, idate |-> SentAt - 2],
     [in_reply_to |-> "", references |-> <<>>, from |-> "Bob <Bob@X.com>",
      subject |-> <<"Hello">>, date |-> SentAt + 1, idate |-> SentAt + 1],
     [in_reply_to |-> "<b>", references |-> <<>>, from |-> "eve@y.org",
      subject |-> <<"Hello">>, date |-> SentAt + 1, idate |-> SentAt + 1]}

\* the HTTP answers of the text-generation service to one request
MainGens ==
    {Gen(<< <<"Price usd">>, <<"Payment">>, <<"Comments">> >>, o, <<>>, 0, "none", h) :
        o \in {<<Mem("Payment", <<"Wire">>, TRUE)>>,
               <<Mem("Price usd", <<>>, TRUE), Mem("Payment", <<SP>>, TRUE)>>},
        h \in {"completion", "error"}}

\* LMStudioClient.analyze_email: None on every exception, else what
\* _parse_response makes of choices[0].text
analyze_email(g) ==
    The({ IF text = Raised THEN None ELSE parse_response(text[1], g.fields) :
          text \in {IF g.http = "error" THEN Raised ELSE ChoicesText(HttpBody(g))} })

\* what analyze_email may return for a reply, over those answers
MainAnswers == {analyze_email(g) : g \in MainGens}

\* the contents of INBOX
Inboxes ==
    {[i \in 1..Len(kinds) |-> WithId(kinds[i], i)] :
        kinds \in SeqsUpTo(MainMsgKinds, MaxInbox)}

\* the outcomes of one attempt on the send-event at idx: the value or Raised,
\* and the connection after it (nothing in find_reply connects again)
AttemptOutcomes ==
    {[res  |-> IF conn = "dropped" \/ f # "none" THEN Raised
               ELSE find_reply(sent_emails[idx], inbox, listed, lost, a),
      conn |-> IF f = "drop" THEN "dropped" ELSE conn] :
        f \in AttemptFaults, a \in SinceAnswers, listed \in BOOLEAN,
        lost \in 0..Len(inbox)}

InitMain ==
    /\ CorrIdle /\ RetryIdle /\ XlIdle /\ SentIdle
    /\ gen = [shape |-> "off"] /\ rawText = <<>> /\ exPc = "off"
    /\ extracted = None /\ text_content = None
    /\ sent_emails \in (SeqsUpTo(MainSentRecords, MaxSent) \ {<<>>})
    /\ inbox \in Inboxes
    /\ conn = "up"
    /\ mainPc = "find"
    /\ idx = 1
    /\ attempt = 0
    /\ reply = None
    /\ stats = NewStats
    /\ outcome = <<>>

\* the loop takes the next send-event: "reply = None" and the first attempt
NextItem(how) ==
    /\ outcome' = Append(outcome, how)
    /\ idx' = idx + 1
    /\ attempt' = 0
    /\ mainPc' = "find"

\* main's handler of an exception of find_reply (lines 164-167) that lets
\* the exception through, so that it leaves the loop
except_imap_reraise(st) == [stats |-> st, pc |-> "aborted"]

\* main's handler of an exception of find_reply (lines 164-167): count it
\* and continue with the next send-event
except_imap(st) ==
    [stats |-> [st EXCEPT !.errors.imap = @ + 1], pc |-> "find"]

\* an attempt of find_reply raises and is not the last: the wrapper sleeps
\* and tries again
find_reply_retry ==
    /\ mainPc = "find"
    /\ idx <= Len(sent_emails)
    /\ attempt < max_retries - 1
    /\ \E o \in AttemptOutcomes :
         /\ o.res = Raised
         /\ conn' = o.conn
    /\ attempt' = attempt + 1
    /\ UNCHANGED <<sent_emails, inbox, mainPc, idx, reply, stats, outcome, extracted>>
    /\ UNCHANGED <<corrVars, gen, rawText, exPc, text_content, retryVars, xlVars, sentVars>>

\* the last attempt raises: the wrapper raises to main, whose handler runs
find_reply_raises ==
    /\ mainPc = "find"
    /\ idx <= Len(sent_emails)
    /\ attempt = max_retries - 1
    /\ \E o \in AttemptOutcomes :
         /\ o.res = Raised
         /\ conn' = o.conn
    /\ LET h == except_imap(stats)
       IN  /\ stats' = h.stats
           /\ outcome' = Append(outcome, "imap_error")
           /\ attempt' = 0
           /\ mainPc' = h.pc
           /\ idx' = IF h.pc = "find" THEN idx + 1 ELSE idx
    /\ reply' = None
    /\ extracted' = None
    /\ UNCHANGED <<sent_emails, inbox>>
    /\ UNCHANGED <<corrVars, gen, rawText, exPc, text_content, retryVars, xlVars, sentVars>>

\* an attempt returns: without a reply the loop continues (lines 169-171),
\* with one it is counted (line 173)
find_reply_returns ==
    /\ mainPc = "find"
    /\ idx <= Len(sent_emails)
    /\ \E o \in AttemptOutcomes :
         /\ o.res # Raised
         /\ conn' = o.conn
         /\ reply' = o.res
         /\ IF o.res = None
            THEN /\ NextItem("no_reply")
                 /\ UNCHANGED stats
            ELSE /\ stats' = [stats EXCEPT !.replies_found = @ + 1]
                 /\ mainPc' = "analyze"
                 /\ UNCHANGED <<outcome, idx, attempt>>
    /\ extracted' = None
    /\ UNCHANGED <<sent_emails, inbox>>
    /\ UNCHANGED <<corrVars, gen, rawText, exPc, text_content, retryVars, xlVars, sentVars>>

\* main_analyze without "stats.errors['lm_studio'] += 1"
main_analyze_uncounted ==
    /\ mainPc = "analyze"
    /\ \E answer \in MainAnswers :
         /\ extracted' = answer
         /\ IF answer = None
            THEN /\ stats' = [stats EXCEPT
                                !.bad_processing =
                                    Append(@, [email |-> sent_emails[idx].to,
                                               reason |-> "LM Studio parsing error"])]
                 /\ NextItem("lm_error")
            ELSE /\ stats' = [stats EXCEPT !.lm_analysis_success = @ + 1]
                 /\ mainPc' = "update"
                 /\ UNCHANGED <<outcome, idx, attempt>>
    /\ UNCHANGED <<sent_emails, inbox, conn, reply>>
    /\ UNCHANGED <<corrVars, gen, rawText, exPc, text_content, retryVars, xlVars, sentVars>>

\* lines 175-190: analyze_email; nothing extracted is recorded as bad
\* processing and ends the iteration
main_analyze ==
    /\ mainPc = "analyze"
    /\ \E answer \in MainAnswers :
         /\ extracted' = answer
         /\ IF answer = None
            THEN /\ stats' = [stats EXCEPT
                                !.bad_processing =
                                    Append(@, [email |-> sent_emails[idx].to,
                                               reason |-> "LM Studio parsing error"]),
                                !.errors.lm_studio = @ + 1]
                 /\ NextItem("lm_error")
            ELSE /\ stats' = [stats EXCEPT !.lm_analysis_success = @ + 1]
                 /\ mainPc' = "update"
                 /\ UNCHANGED <<outcome, idx, attempt>>
    /\ UNCHANGED <<sent_emails, inbox, conn, reply>>
    /\ UNCHANGED <<corrVars, gen, rawText, exPc, text_content, retryVars, xlVars, sentVars>>

\* lines 193-198: update_rows answers int(updated_any) or, having caught an
\* exception of its own, 0
main_update ==
    /\ mainPc = "update"
    /\ \E updates \in {0, 1} :
         stats' = [stats EXCEPT !.excel_updates = @ + updates]
    /\ NextItem("updated")
    /\ UNCHANGED <<sent_emails, inbox, conn, reply, extracted>>
    /\ UNCHANGED <<corrVars, gen, rawText, exPc, text_content, retryVars, xlVars, sentVars>>

\* lines 200-209: the loop is over; the workbook is saved, a failure of which
\* is counted
main_save ==
    /\ mainPc = "find"
    /\ idx > Len(sent_emails)
    /\ \E saved \in BOOLEAN :
         stats' = IF saved THEN stats ELSE [stats EXCEPT !.errors.excel = @ + 1]
    /\ mainPc' = "finished"
    /\ UNCHANGED <<sent_emails, inbox, conn, idx, attempt, reply, outcome, extracted>>
    /\ UNCHANGED <<corrVars, gen, rawText, exPc, text_content, retryVars, xlVars, sentVars>>

NextMain ==
    \/ find_reply_retry \/ find_reply_raises \/ find_reply_returns
    \/ main_analyze \/ main_update \/ main_save

SpecMain == InitMain /\ [][NextMain]_vars

-----------------------------------------------------------------------------
(* utils.retry_with_backoff around one decorated function.  The four       *)
(* decorated functions are connect, get_sent_emails and find_reply of      *)
(* src/src/imap_client.py and analyze_email of src/src/lm_studio_client.py.*)

Wrapped == {"connect", "get_sent_emails", "find_reply", "analyze_email"}

\* exceptions of the transport a decorated function talks over
TransportErrors == {"ConnectionError", "Timeout"}

\* what befalls one invocation: its remote call answers and the function
\* has something to return ("value"), answers and the function has nothing
\* to return ("nothing"), or raises
Effects == {"value", "nothing"} \cup TransportErrors

\* what the n-th invocation of the decorated function does under effect e:
\* analyze_email keeps its remote call in a try whose "except Exception"
\* returns None; the IMAP functions let the exception leave
func(f, e, n) ==
    IF e \in TransportErrors
    THEN IF f = "analyze_email"
         THEN [how |-> "returned", what |-> <<"nothing", n>>]
         ELSE [how |-> "raised", what |-> <<e, n>>]
    ELSE [how |-> "returned", what |-> <<e, n>>]

\* "if attempt == max_retries - 1" with the first attempt taken for the last
IsLastAttempt_first(a) == a = 0

\* "if attempt == max_retries - 1"
IsLastAttempt(a) == a = max_retries - 1

InitRetry ==
    /\ CorrIdle /\ ExIdle /\ MainIdle /\ XlIdle /\ SentIdle
    /\ wrapped \in Wrapped
    /\ script \in [1..max_retries -> Effects]
    /\ rwPc = "loop"
    /\ rwAttempt = 0
    /\ invoked = 0
    /\ slept = <<>>
    /\ rwResult = [how |-> "running", what |-> <<"", 0>>]

\* wrapper_returns with the sleep placed before the return
wrapper_returns_sleeping ==
    /\ rwPc = "loop"
    /\ rwAttempt < max_retries
    /\ LET r == func(wrapped, script[invoked + 1], invoked + 1)
       IN  /\ r.how = "returned"
           /\ rwResult' = r
    /\ invoked' = invoked + 1
    /\ slept' = Append(slept, rwAttempt)
    /\ rwPc' = "done"
    /\ UNCHANGED <<wrapped, script, rwAttempt>>
    /\ UNCHANGED <<corrVars, exVars, mainVars, xlVars, sentVars>>

\* one pass of "for attempt in range(max_retries)" in which func returns
wrapper_returns ==
    /\ rwPc = "loop"
    /\ rwAttempt < max_retries
    /\ LET r == func(wrapped, script[invoked + 1], invoked + 1)
       IN  /\ r.how = "returned"
           /\ rwResult' = r
    /\ invoked' = invoked + 1
    /\ rwPc' = "done"
    /\ UNCHANGED <<wrapped, script, rwAttempt, slept>>
    /\ UNCHANGED <<corrVars, exVars, mainVars, xlVars, sentVars>>

\* a pass in which func raises and the wrapper sleeps: the delay is
\* base_delay * backoff_factor ** attempt plus a random part below a second
wrapper_sleeps ==
    /\ rwPc = "loop"
    /\ rwAttempt < max_retries
    /\ func(wrapped, script[invoked + 1], invoked + 1).how = "raised"
    /\ ~IsLastAttempt(rwAttempt)
    /\ invoked' = invoked + 1
    /\ slept' = Append(slept, rwAttempt)
    /\ rwAttempt' = rwAttempt + 1
    /\ UNCHANGED <<wrapped, script, rwPc, rwResult>>
    /\ UNCHANGED <<corrVars, exVars, mainVars, xlVars, sentVars>>

\* the pass in which func raises and the wrapper raises the same exception
wrapper_raises ==
    /\ rwPc = "loop"
    /\ rwAttempt < max_retries
    /\ LET r == func(wrapped, script[invoked + 1], invoked + 1)
       IN  /\ r.how = "raised"
           /\ IsLastAttempt(rwAttempt)
           /\ rwResult' = r
    /\ invoked' = invoked + 1
    /\ rwPc' = "done"
    /\ UNCHANGED <<wrapped, script, rwAttempt, slept>>
    /\ UNCHANGED <<corrVars, exVars, mainVars, xlVars, sentVars>>

NextRetry == wrapper_returns \/ wrapper_sleeps \/ wrapper_raises

SpecRetry == InitRetry /\ [][NextRetry]_vars

\* the wrapper runs on the caller's thread: a pass that can be taken is taken
SpecRetryFair == SpecRetry /\ WF_vars(NextRetry)

-----------------------------------------------------------------------------
(* ExcelProcessor.update_rows as main() calls it: the second argument is   *)
(* the dict that analyze_email returned.                                   *)

\* repr() of a str: in single quotes, or in double quotes when the string
\* holds a single quote and no double quote
str_repr(cs) ==
    LET quote == IF "'" \in SeqToSet(cs) /\ Q \notin SeqToSet(cs) THEN Q ELSE "'"
    IN  <<quote>>
          \o Cat([p \in 1..Len(cs) |->
                    IF cs[p] = BS THEN <<BS, BS>>
                    ELSE IF cs[p] = NL THEN <<BS, "n">>
                    ELSE IF cs[p] = quote THEN <<BS, quote>> ELSE <<cs[p]>>])
          \o <<quote>>

\* str(raw_response) of a dict of strings, given as its [field, value] pairs
dict_str(rec) ==
    <<"{">>
      \o Cat([i \in 1..Len(rec) |->
                str_repr(rec[i].field) \o <<":", SP>> \o str_repr(rec[i].value)
                  \o (IF i < Len(rec) THEN <<",", SP>> ELSE <<>>)])
      \o <<"}">>

expected_fields ==
    << <<"Price usd">>, <<"Price usd casino">>, <<"Payment">>, <<"Inform">>, <<"Comments">> >>

\* _is_valid_response_json: a dict with one of the expected fields as a key
\* and one of them with a value that is true and not blank as a string
is_valid_response_json(obj) ==
    /\ obj.t = "obj"
    /\ \E i \in 1..Len(expected_fields) : dict_get(obj, expected_fields[i]) # None
    /\ \E i \in 1..Len(expected_fields) :
         LET got == dict_get(obj, expected_fields[i])
         IN  /\ got # None
             /\ CASE got[1].t = "str"  -> ~IsBlank(got[1].v)
                  [] got[1].t = "num"  -> got[1].v # <<"0">>
                  [] got[1].t = "bool" -> got[1].v = <<"true">>
                  [] got[1].t = "null" -> FALSE
                  [] OTHER             -> got[1].v # <<>>

\* the candidates of a list in order: the first that json.loads accepts and
\* that is valid
RECURSIVE FirstValid(_)
FirstValid(candidates) ==
    IF candidates = <<>> THEN None
    ELSE The({ IF parsed # None /\ is_valid_response_json(parsed[1]) THEN parsed
               ELSE FirstValid(Tail(candidates)) :
               parsed \in {json_loads(strip(Head(candidates)))} })

\* the three grave accents that open and close a block of markdown
Fence == "<fence>"

\* re.findall of json_block_pattern (line 74) from position i on: a fence
\* with the word json, in any case, then an object up to the first "}" that
\* stands before a closing fence
RECURSIVE FencedBlocks(_, _)
FencedBlocks(text, i) ==
    LET fences == {p \in i..(Len(text) - 1) :
                      text[p] = Fence /\ LowerTok(text[p + 1]) = "json"}
    IN  IF fences = {} THEN <<>>
        ELSE LET p == MinOf(fences)
                 s == SkipWs(text, p + 2)
                 closers == {e \in (s + 1)..Len(text) :
                               /\ text[e] = "}"
                               /\ SkipWs(text, e + 1) <= Len(text)
                               /\ text[SkipWs(text, e + 1)] = Fence}
             IN  IF s <= Len(text) /\ text[s] = "{" /\ closers # {}
                 THEN <<SubSeq(text, s, MinOf(closers))>>
                        \o FencedBlocks(text, SkipWs(text, MinOf(closers) + 1) + 1)
                 ELSE FencedBlocks(text, p + 1)

\* re.findall of json_pattern (line 85) from position i on: a "{" whose
\* next brace is a "}", with "Price usd", "Payment" or "Inform" in double
\* quotes between the two
RECURSIVE KeyedObjects(_, _)
KeyedObjects(text, i) ==
    LET opens == {p \in i..Len(text) : text[p] = "{"}
    IN  IF opens = {} THEN <<>>
        ELSE LET p == MinOf(opens)
                 later == {q \in (p + 1)..Len(text) : text[q] \in {"{", "}"}}
             IN  IF later = {} THEN <<>>
                 ELSE IF /\ text[MinOf(later)] = "}"
                         /\ \E k \in {"Price usd", "Payment", "Inform"} :
                              IsInfix(<<Q, k, Q>>, SubSeq(text, p + 1, MinOf(later) - 1))
                 THEN <<SubSeq(text, p, MinOf(later))>>
                        \o KeyedObjects(text, MinOf(later) + 1)
                 ELSE KeyedObjects(text, p + 1)

\* _parse_json_line_by_line from position i on, over the characters of all
\* lines in order (text without its line ends).  The scan goes from one
\* character that changes its state to the next: in a string a quote or a
\* backslash, which takes the character behind it along; outside a quote or
\* a brace.  What lies between is added to current_json in a string or
\* inside braces, and dropped otherwise.
RECURSIVE parse_json_line_by_line(_, _, _, _, _)
parse_json_line_by_line(text, i, current_json, brace_count, in_string) ==
    LET marks == {p \in i..Len(text) :
                    text[p] \in (IF in_string THEN {Q, BS} ELSE {Q, "{", "}"})}
    IN  IF marks = {} THEN None
        ELSE LET p == MinOf(marks)
                 upto == IF in_string \/ brace_count > 0
                         THEN current_json \o SubSeq(text, i, p - 1)
                         ELSE current_json
             IN  CASE text[p] = BS ->
                        parse_json_line_by_line(
                            text, p + 2,
                            upto \o SubSeq(text, p, IF p < Len(text) THEN p + 1 ELSE p),
                            brace_count, in_string)
                   [] text[p] = Q ->
                        parse_json_line_by_line(text, p + 1, Append(upto, Q),
                                                brace_count, ~in_string)
                   [] text[p] = "{" ->
                        parse_json_line_by_line(
                            text, p + 1,
                            (IF brace_count = 0 THEN <<>> ELSE upto) \o <<"{">>,
                            brace_count + 1, in_string)
                   [] OTHER ->
                        IF brace_count - 1 = 0
                        THEN The({ IF parsed # None THEN parsed
                                   ELSE parse_json_line_by_line(text, p + 1, <<>>, 0,
                                                                in_string) :
                                   parsed \in {FirstValid(<<Append(upto, "}")>>)} })
                        ELSE parse_json_line_by_line(text, p + 1, Append(upto, "}"),
                                                     brace_count - 1, in_string)

\* _extract_json_from_text of the unwrapped text content: the fenced
\* blocks, the objects with one of the keys, the scan of the lines
extract_json_from_text(text) ==
    IF text.t # "str" \/ text.v = <<>> THEN None
    ELSE The({ IF fenced # None THEN fenced
               ELSE The({ IF keyed # None THEN keyed
                          ELSE parse_json_line_by_line(
                                   Cat([p \in 1..Len(text.v) |->
                                          IF text.v[p] = NL THEN <<>> ELSE <<text.v[p]>>]),
                                   1, <<>>, 0, FALSE) :
                          keyed \in {FirstValid(KeyedObjects(text.v, 1))} }) :
               fenced \in {FirstValid(FencedBlocks(text.v, 1))} })

\* parse_lm_studio_response: the parsed dict, {} when there is none, or
\* RaisedVal (the slice of a text content that is a dict in the error report,
\* an unwrapping that raised)
parse_lm_studio_response(response) ==
    IF response = None THEN JObj(<<>>)
    ELSE The({ IF content = RaisedVal THEN RaisedVal
               ELSE The({ IF parsed # None /\ parsed[1].v # <<>> THEN parsed[1]
                          ELSE IF content.t = "obj" THEN RaisedVal
                          ELSE JObj(<<>>) :
                          parsed \in {extract_json_from_text(content)} }) :
               content \in {extract_text_from_api_response(dict_str(response[1]))} })

\* utils.extract_emails on the address literals of the model
extract_emails(text) ==
    CASE text \in {"bob@x.com", "Bob@X.com", "ann@y.org", "eve@z.net"} -> <<text>>
      [] text = "bob <bob@x.com>" -> <<"bob@x.com">>
      [] text = "ann@y.org, Bob@X.com" -> <<"ann@y.org", "Bob@X.com">>
      [] OTHER -> <<>>

\* the columns main() hands to ExcelProcessor and to analyze_email
target_columns == << <<"Price usd">>, <<"Payment">>, <<"Comments">> >>

\* create_email_index: the rows whose Mail cell holds the address
email_index(sheet, norm) ==
    {r \in 1..Len(sheet) :
        \E i \in 1..Len(extract_emails(sheet[r].mail)) :
            normalize_email(extract_emails(sheet[r].mail)[i]) = norm}

\* new_val of update_rows: str(extracted_data.get(col, "")).strip()
new_val(extracted_data, col) ==
    LET got == dict_get(extracted_data, col)
    IN  IF got = None THEN <<>>
        ELSE IF got[1].t = "str" THEN strip(got[1].v)
        ELSE strip(py_repr(got[1]))

\* update_rows: the sheet, self.changes and the returned number; every
\* exception is caught and answered with 0
update_rows(sheet, chg, email, response) ==
    The({ IF extracted_data = RaisedVal \/ extracted_data.v = <<>>
          THEN [df |-> sheet, changes |-> chg, ret |-> 0]
          ELSE LET emails == extract_emails(email)
                   rows == {r \in 1..Len(sheet) :
                              \E i \in 1..Len(emails) :
                                  r \in email_index(sheet, normalize_email(emails[i]))}
                   writes == {w \in rows \X SeqToSet(target_columns) :
                                /\ new_val(extracted_data, w[2]) # <<>>
                                /\ sheet[w[1]].cells[w[2]] # new_val(extracted_data, w[2])}
               IN  [df |-> [r \in 1..Len(sheet) |->
                              [sheet[r] EXCEPT !.cells =
                                 [c \in SeqToSet(target_columns) |->
                                    IF <<r, c>> \in writes
                                    THEN new_val(extracted_data, c) ELSE @[c]]]],
                    changes |-> chg \cup writes,
                    ret |-> IF writes # {} THEN 1 ELSE 0] :
          extracted_data \in {parse_lm_studio_response(response)} })

MaxRows == 2

\* the records analyze_email may hand over: never all blank
Records ==
    {rec \in {[i \in 1..3 |-> [field |-> target_columns[i], value |-> v[i]]] :
                v \in {<<>>, <<"100">>} \X {<<>>, <<"Wire">>}
                      \X {<<>>, <<"it", "'", "s">>,
                          <<"{", Q, "Payment", Q, ":", SP, Q, "Cash", Q, "}">>}} :
        ~AllBlank(rec)}

\* the rows of the sheet
Rows ==
    {[mail |-> a, cells |-> [c \in SeqToSet(target_columns) |->
                               IF c = <<"Price usd">> THEN p
                               ELSE IF c = <<"Payment">> THEN w ELSE <<>>]] :
        a \in {"Bob@X.com", "ann@y.org, Bob@X.com", "ann@y.org"},
        p \in {<<>>, <<"100">>}, w \in {<<>>, <<"Cash">>}}

InitXl ==
    /\ CorrIdle /\ ExIdle /\ MainIdle /\ RetryIdle /\ SentIdle
    /\ df \in (SeqsUpTo(Rows, MaxRows) \ {<<>>})
    /\ changes = {}
    /\ to_email \in {"bob@x.com", "bob <bob@x.com>", "eve@z.net"}
    /\ raw_response \in {Some(rec) : rec \in Records}
    /\ xlPc = "call"
    /\ updated = 0

\* main.py line 194: updates = excel.update_rows(normalize_email(to), extracted)
update_rows_call ==
    /\ xlPc = "call"
    /\ \E u \in {update_rows(df, changes, to_email, raw_response)} :
         /\ df' = u.df
         /\ changes' = u.changes
         /\ updated' = u.ret
    /\ xlPc' = "done"
    /\ UNCHANGED <<to_email, raw_response>>
    /\ UNCHANGED <<corrVars, exVars, mainVars, retryVars, sentVars>>

NextXl == update_rows_call

SpecXl == InitXl /\ [][NextXl]_vars

-----------------------------------------------------------------------------
(* IMAPClient.get_sent_emails of the backup client: the selection of the   *)
(* sent folder, the search, and the fetch loop that reconnects when the    *)
(* connection is lost.  self.conn is [state, folder]: state "up" (logged   *)
(* in), "nonauth" (a new connection whose login failed) or "dead" (lost);  *)
(* folder is the folder selected on it.                                    *)

\* the constructor's default of retry_attempts
retry_attempts == 3

MaxIds == 2            \* messages the search of the sent folder returns
MaxSessionFaults == 3  \* faults of the store and the network in one call

\* self.sent_folders: "Sent Items" and the Russian name of the sent folder
sent_folders ==
    << <<83, 101, 110, 116, 32, 73, 116, 101, 109, 115>>,
       UnitChars(Otpravlennye, TRUE) >>

\* _select_folder's look-up of one name: the raw name of the listed folder
\* whose decoded name, or else whose raw name, is the name without case (of
\* two such folders the dict keeps the later)
real_name(name, folder_info) ==
    LET norm == LowerCps(name)
        D == {i \in 1..Len(folder_info) : LowerCps(folder_info[i].decoded) = norm}
        R == {i \in 1..Len(folder_info) :
                 LowerCps(UnitChars(folder_info[i].raw, FALSE)) = norm}
        last(S) == CHOOSE x \in S : \A y \in S : y <= x
    IN  IF D # {} THEN Some(folder_info[last(D)].raw)
        ELSE IF R # {} THEN Some(folder_info[last(R)].raw)
        ELSE None


RECURSIVE select_folder(_, _, _, _)
select_folder(possible_names, folder_info, answer, st) ==
    IF possible_names = <<>> THEN [ok |-> FALSE, st |-> st]
    ELSE LET rn == real_name(Head(possible_names), folder_info)
         IN  IF rn = None
             THEN select_folder(Tail(possible_names), folder_info, answer, st)
             ELSE IF answer[rn[1]] = "OK"
             THEN [ok |-> TRUE, st |-> [folder |-> rn, selected_folder |-> rn]]
             ELSE select_folder(Tail(possible_names), folder_info, answer,
                                [st EXCEPT !.folder = None])

\* the answers of the store to the SELECTs of one _select_folder
SelectAnswers == [SeqToSet(gsListing) -> {"OK", "NO"}]

InitSent ==
    /\ CorrIdle /\ ExIdle /\ MainIdle /\ RetryIdle /\ XlIdle
    /\ gsListing \in Listings
    /\ stored \in 0..MaxIds
    /\ gsPc = "begin"
    /\ imap = [state |-> "up", folder |-> None]
    /\ selected_folder = None
    /\ gsIds = <<>>
    /\ searched = None
    /\ eidPos = 0
    /\ tries = 0
    /\ gsEmails = <<>>
    /\ fetchLog = <<>>
    /\ gsFaults = 0

\* lines 160-174: _select_folder(self.sent_folders) and the search; both are
\* outside every try
get_sent_emails_begin ==
    /\ gsPc = "begin"
    /\ \E how \in {"ok"} \cup (IF gsFaults < MaxSessionFaults
                               THEN {"list_raises", "search_no", "search_raises"}
                               ELSE {}),
          answer \in SelectAnswers :
         LET sel == select_folder(sent_folders, list_folders(gsListing), answer,
                                  [folder |-> imap.folder,
                                   selected_folder |-> selected_folder])
         IN  /\ gsFaults' = IF how = "ok" THEN gsFaults ELSE gsFaults + 1
             /\ IF how = "list_raises"
                THEN /\ gsPc' = "raised"
                     /\ UNCHANGED <<imap, selected_folder, gsIds, searched, eidPos>>
                ELSE /\ imap' = [state |-> IF sel.ok /\ how = "search_raises"
                                           THEN "dead" ELSE "up",
                                 folder |-> sel.st.folder]
                     /\ selected_folder' = sel.st.selected_folder
                     /\ IF ~sel.ok \/ how = "search_no"
                        THEN /\ gsPc' = "done"
                             /\ UNCHANGED <<gsIds, searched, eidPos>>
                        ELSE IF how = "search_raises"
                        THEN /\ gsPc' = "raised"
                             /\ UNCHANGED <<gsIds, searched, eidPos>>
                        ELSE /\ gsIds' = [i \in 1..stored |-> i]
                             /\ searched' = sel.st.folder
                             /\ eidPos' = 1
                             /\ gsPc' = "fetch"
    /\ UNCHANGED <<gsListing, stored, tries, gsEmails, fetchLog>>
    /\ UNCHANGED <<corrVars, exVars, mainVars, retryVars, xlVars>>

\* what one call of conn.fetch can come to on the connection as it is: on a
\* lost connection the library raises abort; without a selected folder it
\* raises error before anything is sent; else the message comes ("ok"), the
\* store answers NO (the code raises abort itself), the connection is lost
\* ("abort"), or the decoding raises ("error")
FetchOutcomes ==
    IF imap.state = "dead" THEN {"abort"}
    ELSE IF imap.state = "nonauth" \/ imap.folder = None THEN {"error"}
    ELSE {"ok"} \cup (IF gsFaults < MaxSessionFaults THEN {"NO", "abort", "error"}
                      ELSE {})

\* what connect() can come to: a session that is logged in, or after
\* retry_attempts attempts an exception, raised by the constructor of the
\* connection (self.conn keeps the old object) or by login (self.conn is the
\* new connection)
ConnectOutcomes ==
    {"ok"} \cup (IF gsFaults < MaxSessionFaults THEN {"refused", "denied"} ELSE {})

\* the handler of abort, lines 198-208, after "tries += 1": connect() and
\* _select_folder, whose result is not looked at and whose exception (a LIST
\* that fails) is logged
Reconnect(c, listOk, answer, after) ==
    CASE c = "refused" -> [imap |-> after, selected_folder |-> selected_folder]
      [] c = "denied" -> [imap |-> [state |-> "nonauth", folder |-> None],
                          selected_folder |-> selected_folder]
      [] OTHER ->
           IF ~listOk
           THEN [imap |-> [state |-> "up", folder |-> None],
                 selected_folder |-> selected_folder]
           ELSE LET sel == select_folder(sent_folders, list_folders(gsListing), answer,
                                         [folder |-> None,
                                          selected_folder |-> selected_folder])
                IN  [imap |-> [state |-> "up", folder |-> sel.st.folder],
                     selected_folder |-> sel.st.selected_folder]



\* "while tries < self.retry_attempts"
GoesOn(t) == t < retry_attempts

\* lines 179-211: one pass of "while tries < self.retry_attempts" for the
\* message at eidPos
get_sent_emails_fetch ==
    /\ gsPc = "fetch"
    /\ eidPos <= Len(gsIds)
    /\ \E o \in FetchOutcomes :
         /\ fetchLog' = Append(fetchLog, [eid |-> gsIds[eidPos], state |-> imap.state,
                                          folder |-> imap.folder, outcome |-> o])
         /\ IF o = "ok"
            THEN /\ gsEmails' = Append(gsEmails, gsIds[eidPos])
                 /\ eidPos' = eidPos + 1
                 /\ tries' = 0
                 /\ UNCHANGED <<imap, selected_folder, gsFaults>>
            ELSE IF o = "error"
            THEN /\ eidPos' = eidPos + 1
                 /\ tries' = 0
                 /\ gsFaults' = IF imap.state = "up" /\ imap.folder # None
                                THEN gsFaults + 1 ELSE gsFaults
                 /\ UNCHANGED <<imap, selected_folder, gsEmails>>
            ELSE \E c \in ConnectOutcomes, listOk \in BOOLEAN, answer \in SelectAnswers :
                   LET after == IF o = "abort" THEN [imap EXCEPT !.state = "dead"]
                                ELSE imap
                       r == Reconnect(c, listOk, answer, after)
                   IN  /\ imap' = r.imap
                       /\ selected_folder' = r.selected_folder
                       /\ gsFaults' = gsFaults
                                        + (IF imap.state = "dead" THEN 0 ELSE 1)
                                        + (IF c = "ok" THEN 0 ELSE 1)
                       /\ IF GoesOn(tries + 1)
                          THEN /\ tries' = tries + 1
                               /\ UNCHANGED eidPos
                          ELSE /\ tries' = 0
                               /\ eidPos' = eidPos + 1
                       /\ UNCHANGED gsEmails
    /\ UNCHANGED <<gsListing, stored, gsPc, gsIds, searched>>
    /\ UNCHANGED <<corrVars, exVars, mainVars, retryVars, xlVars>>

\* lines 212-213: the loops are over, the decoded messages are returned
get_sent_emails_end ==
    /\ gsPc = "fetch"
    /\ eidPos > Len(gsIds)
    /\ gsPc' = "done"
    /\ UNCHANGED <<gsListing, stored, imap, selected_folder, gsIds, searched, eidPos,
                   tries, gsEmails, fetchLog, gsFaults>>
    /\ UNCHANGED <<corrVars, exVars, mainVars, retryVars, xlVars>>

NextSent == get_sent_emails_begin \/ get_sent_emails_fetch \/ get_sent_emails_end

SpecSent == InitSent /\ [][NextSent]_vars

\* get_sent_emails runs on the caller's thread: a pass that can be made is made
SpecSentFair == SpecSent /\ WF_vars(NextSent)

-----------------------------------------------------------------------------
(* Properties of the folder sweep (SpecCorr).                              *)

\* the folders the sweep is to scan: the inbox, and every listed folder whose
\* decoded name holds none of the seven patterns
HasPattern(name) ==
    \E pat \in { <<115, 101, 110, 116>>, <<1086, 1090, 1087, 1088, 1072, 1074>>,
                 <<115, 112, 97, 109>>, <<106, 117, 110, 107>>,
                 <<116, 114, 97, 115, 104>>, <<1082, 1086, 1088, 1079, 1080, 1085>>,
                 <<1091, 1076, 1072, 1083, 1077, 1085>> } :
        IsInfix(pat, LowerCps(UnitChars(name, TRUE)))

EligibleFolders == {INBOX} \cup {f \in SeqToSet(listing) : ~HasPattern(f)}

\* a message of the store that answers the sent message by In-Reply-To, was
\* received after it and lies inside the search window
ExactReplyIn(f) ==
    \E i \in 1..Len(mailbox[f]) :
        /\ StripAngle(mailbox[f][i].in_reply_to) = SentMessageId
        /\ mailbox[f][i].date # NoDate
        /\ mailbox[f][i].date > sent.date
        /\ InWindow(mailbox[f][i], sent.date)

\* C2 (as its consequence: some reply of confidence >= 50 is returned): when
\* the sent record has a message id and an eligible folder holds a message
\* whose In-Reply-To is that id, received after the sent date and inside the
\* window, find_reply on a store without faults returns a reply and its
\* confidence is at least 50.
C2_ExactReplyReturned ==
    (/\ frPc = "done"
     /\ faults = 0
     /\ sent.message_id # ""
     /\ \E f \in EligibleFolders : ExactReplyIn(f))
    => (result # None /\ result[1].confidence >= 50)

\* C3: whenever the pool find_reply ranks holds a candidate of confidence 50
\* and one of confidence 45, and none above 50, the reply returned has
\* confidence 50, whatever the order of the pool.
C3_FiftyBeatsFortyFive ==
    (/\ frPc = "done"
     /\ \E i \in 1..Len(found_replies) : found_replies[i].confidence = 50
     /\ \E i \in 1..Len(found_replies) : found_replies[i].confidence = 45
     /\ \A i \in 1..Len(found_replies) : found_replies[i].confidence <= 50)
    => (result # None /\ result[1].confidence = 50)

\* C3 witness: a ranked pool whose first fetched candidate is the one of
\* confidence 45, with the one of confidence 50 after it
C3_Witness ==
    /\ frPc = "done"
    /\ Len(found_replies) >= 2
    /\ found_replies[1].confidence = 45
    /\ \E i \in 2..Len(found_replies) : found_replies[i].confidence = 50
    /\ \A i \in 1..Len(found_replies) : found_replies[i].confidence <= 50
    /\ result # None

\* C4: find_reply returns only after every eligible folder has been scanned.
C4_AllFoldersScanned ==
    (frPc = "done" /\ sent.message_id # "" /\ faults = 0)
    => \A f \in EligibleFolders : f \in SeqToSet(selectLog)

\* C5: no folder whose decoded name holds one of the patterns, compared
\* without case, is ever selected, and the first folder selected is the inbox.
C5_ExcludedNeverSelected ==
    /\ \A i \in 1..Len(selectLog) : ~HasPattern(selectLog[i])
    /\ selectLog # <<>> => selectLog[1] = INBOX

\* C5 witness: the sweep has ended with nothing found although a listed,
\* excluded folder (written in capitals, or encoded) holds a reply
C5_Witness ==
    /\ frPc = "done"
    /\ result = None
    /\ faults = 0
    /\ \E f \in SeqToSet(listing) :
          /\ HasPattern(f)
          /\ f \in {SentItems, Otpravlennye}
          /\ ExactReplyIn(f)
    /\ Len(selectLog) = 2

\* the messages the store holds
StoredMessages == UNION {SeqToSet(mailbox[f]) : f \in DOMAIN mailbox}

\* the acceptance rule in the claim's words
StatedAccept(m) ==
    \/ StripAngle(m.in_reply_to) = SentMessageId
    \/ IdInReferences(SentMessageId, m.references)
    \/ Confidence(m, SentMessageId, SentTo, sent.subject) >= 40

\* C16: a fetched message that is not dated at or before the sent message
\* is accepted if and only if its In-Reply-To is the sent id, or the sent id
\* is in its References, or its confidence is at least 40; the pool and the
\* result hold accepted messages only.
C16_AcceptedIffSignalled ==
    sent.message_id # ""
    => /\ \A m \in StoredMessages :
            ~TooEarly(m, sent.date)
            => ((fetch_and_validate_reply(m, TRUE, SentMessageId, SentTo,
                                          sent.subject, sent.date) # None)
                <=> StatedAccept(m))
       /\ \A r \in SeqToSet(found_replies) \cup SeqToSet(result) :
            \E m \in StoredMessages :
                /\ m.message_id = r.message_id
                /\ ~TooEarly(m, sent.date)
                /\ StatedAccept(m)

\* a scan without faults of a folder that holds a message of the recipient
\* with confidence 30, which is not in the pool, beside one that is there by
\* its confidence of 45 alone
C16_Witness ==
    /\ frPc = "done"
    /\ faults = 0
    /\ connSelected # None
    /\ \E i \in 1..Len(found_replies) :
         /\ found_replies[i].confidence = 45
         /\ found_replies[i].in_reply_to # SentMessageId
         /\ found_replies[i].references = <<>>
    /\ \E m \in SeqToSet(mailbox[connSelected[1]]) :
         /\ Confidence(m, SentMessageId, SentTo, sent.subject) = 30
         /\ AddrIn(SentTo, LowerAddr(m.from))
         /\ \A i \in 1..Len(found_replies) : found_replies[i].message_id # m.message_id

\* the signals that match a message, each with its weight
MatchingSignals(m) ==
    {s \in {<<"in_reply_to", 50>>, <<"references", 40>>, <<"from", 30>>,
            <<"reply_marker", 20>>, <<"subject", 15>>} :
        CASE s[1] = "in_reply_to"  -> StripAngle(m.in_reply_to) = SentMessageId
          [] s[1] = "references"   -> IdInReferences(SentMessageId, m.references)
          [] s[1] = "from"         -> AddrIn(SentTo, LowerAddr(m.from))
          [] s[1] = "reply_marker" -> StartsWithReplyMarker(m.subject)
          [] OTHER                 -> subjects_match(m.subject, sent.subject)}

\* the sum of the weights of a set of signals, taken in any order
RECURSIVE SumOfWeights(_)
SumOfWeights(S) ==
    IF S = {} THEN 0
    ELSE LET s == CHOOSE x \in S : TRUE IN s[2] + SumOfWeights(S \ {s})

\* C17: the confidence of a message is the sum of the weights of the signals
\* that match it, a number from 0 to 155, whatever else the store holds; the
\* candidates of the pool carry that number.
C17_ConfidenceIsSum ==
    sent.message_id # ""
    => /\ \A m \in StoredMessages :
            /\ Confidence(m, SentMessageId, SentTo, sent.subject)
                 = SumOfWeights(MatchingSignals(m))
            /\ Confidence(m, SentMessageId, SentTo, sent.subject) \in 0..155
       /\ \A r \in SeqToSet(found_replies) :
            \E m \in StoredMessages :
                /\ m.message_id = r.message_id
                /\ r.confidence = SumOfWeights(MatchingSignals(m))

\* a pool with the candidate of all five signals (155) and one of two (45)
C17_Witness ==
    /\ frPc = "done"
    /\ \E i, j \in 1..Len(found_replies) :
         /\ found_replies[i].confidence = 155
         /\ found_replies[j].confidence = 45

\* the distance of a dated candidate from the sent time
StatedDistance(r) ==
    IF r.reply_date >= sent.date THEN r.reply_date - sent.date
    ELSE sent.date - r.reply_date

\* C18: from a pool that is not empty the candidate returned has the highest
\* confidence of the pool, and no candidate of that confidence is nearer in
\* time to the sent message (a candidate without a date counts as farthest);
\* from an empty pool None is returned.
C18_BestOfPool ==
    frPc = "done"
    => IF found_replies = <<>> THEN result = None
       ELSE /\ result # None
            /\ result[1] \in SeqToSet(found_replies)
            /\ \A r \in SeqToSet(found_replies) :
                 /\ r.confidence <= result[1].confidence
                 /\ (r.confidence = result[1].confidence /\ r.reply_date # NoDate)
                    => /\ result[1].reply_date # NoDate
                       /\ StatedDistance(result[1]) <= StatedDistance(r)

\* two candidates of the highest confidence, the farther one fetched first
C18_Witness ==
    /\ frPc = "done"
    /\ Len(found_replies) >= 2
    /\ found_replies[1].confidence = result[1].confidence
    /\ found_replies[1].reply_date # NoDate
    /\ StatedDistance(result[1]) < StatedDistance(found_replies[1])

\* C20: for a sent record without a message id the search is carried on by
\* sender, subject and date: a message of the recipient in INBOX, dated after
\* the sent message and inside the window, whose subject is the sent subject
\* behind a reply marker, is found.
C20_MissingIdSkipsOnly ==
    (/\ frPc = "done"
     /\ sent.message_id = ""
     /\ \E m \in SeqToSet(mailbox[INBOX]) :
          /\ AddrIn(SentTo, LowerAddr(m.from))
          /\ StartsWithReplyMarker(m.subject)
          /\ subjects_match(m.subject, sent.subject)
          /\ m.date > sent.date
          /\ InWindow(m, sent.date))
    => result # None

-----------------------------------------------------------------------------
(* Properties of the extraction (SpecExtract).                             *)

\* the answer is the plain text of the object, given in a completion-style
\* HTTP answer
PlainAnswer == gen.wrap = "none" /\ gen.http = "completion"

Schema3 == << <<"Price usd">>, <<"Payment">>, <<"Comments">> >>

\* C6: every record returned has one entry per schema field, in schema order;
\* a value that is not empty belongs to a key of the answer's object (keys
\* outside the schema are dropped, schema keys the object lacks are ""); and
\* {"Price usd": "100", "Payment": "PayPal"} with schema [Price usd, Payment,
\* Comments] yields Price usd = 100, Payment = PayPal, Comments = "".
C6_SchemaKeysInOrder ==
    /\ extracted # None =>
         /\ Len(extracted[1]) = Len(gen.fields)
         /\ \A i \in 1..Len(gen.fields) :
               /\ extracted[1][i].field = gen.fields[i]
               /\ extracted[1][i].value # <<>> =>
                    \E n \in 1..Len(gen.obj) : <<gen.obj[n].k>> = gen.fields[i]
    /\ (/\ exPc = "done" /\ PlainAnswer /\ gen.prefix = <<>> /\ gen.cut = 0
        /\ gen.fields = Schema3
        /\ gen.obj = <<Mem("Price usd", <<"100">>, TRUE), Mem("Payment", <<"PayPal">>, TRUE)>>)
       => extracted = Some(<<[field |-> <<"Price usd">>, value |-> <<"100">>],
                             [field |-> <<"Payment">>, value |-> <<"PayPal">>],
                             [field |-> <<"Comments">>, value |-> <<>>]>>)

\* C6 witness: a record was returned for an object that has a key outside the
\* schema, lacks a schema key and lists its keys in another order
C6_Witness ==
    /\ exPc = "done"
    /\ extracted # None
    /\ gen.fields = Schema3
    /\ Len(gen.obj) = 3 /\ gen.obj[1].k = "x" /\ gen.obj[2].k = "Payment"
    /\ extracted[1][1].value = <<"100">>
    /\ extracted[1][3].value = <<>>

\* the object with a key outside the schema that precedes the answer's object
OtherObject == <<"{", Q, "x", Q, ":", SP, Q, "1", Q, "}", NL>>

\* C7: a returned record has a field that is not blank; an object whose
\* projection is all blank is passed over: the object that follows it in the
\* text is returned, also when only a later strategy can read that object,
\* and None is returned when there is nothing else.
C7_NeverAllBlank ==
    /\ extracted # None => \E i \in 1..Len(extracted[1]) : ~IsBlank(extracted[1][i].value)
    /\ (/\ exPc = "done" /\ PlainAnswer /\ gen.prefix = OtherObject
        /\ gen.cut \in {0, 2} /\ gen.obj[1].k = "Price usd" /\ gen.obj[1].v = <<"100">>)
       => (extracted # None /\ \E i \in 1..Len(gen.fields) :
               extracted[1][i] = [field |-> <<"Price usd">>, value |-> <<"100">>])
    /\ (/\ exPc = "done" /\ PlainAnswer /\ gen.cut = 0
        /\ gen.prefix \in {<<>>, OtherObject, <<"Sure", NL>>}
        /\ \A n \in 1..Len(gen.obj) : IsBlank(gen.obj[n].v))
       => extracted = None

\* C7 witness: the first strategy parsed an object whose projection is all
\* blank, found nothing it could return, and a later strategy returned the
\* object behind it
C7_Witness ==
    /\ exPc = "done"
    /\ gen.prefix = OtherObject
    /\ try_parse_json_keep_blank(OtherObject, gen.fields) # None
    /\ Layer1(rawText, gen.fields) = None
    /\ extracted # None

\* the last "{" of the text that no later "}" closes, 0 if there is none
LastUnmatchedOpen(text) ==
    LET U == {p \in 1..Len(text) :
                 /\ text[p] = "{"
                 /\ \A e \in p..Len(text) :
                       Cardinality({k \in p..e : text[k] = "{"})
                         > Cardinality({k \in p..e : text[k] = "}"})}
    IN  IF U = {} THEN 0 ELSE CHOOSE p \in U : \A q \in U : q <= p

\* the quotes of the text that no backslash escapes
UnescapedQuotes(text) ==
    Cardinality({p \in 1..Len(text) : text[p] = Q /\ ~Escaped(text, 1, p)})

\* the repair as stated: from the last unmatched "{", a quote when the
\* unescaped quotes are odd in number, a "}" when "{" outnumber "}"
StatedRepair(text) ==
    The({ The({ IF count(c1, "{") > count(c1, "}") THEN Append(c1, "}") ELSE c1 :
                c1 \in {IF UnescapedQuotes(c0) % 2 = 1 THEN Append(c0, Q) ELSE c0} }) :
          c0 \in {rstrip(From(text, LastUnmatchedOpen(text)))} })

\* C8: for an answer that ends in an unclosed object, the text from the last
\* unmatched "{" is closed (a quote when the unescaped quotes are odd in
\* number, then a "}") and, when the closed text parses, its record is what
\* extraction returns.
C8_TruncationRepair ==
    (/\ exPc = "done" /\ PlainAnswer /\ gen.cut > 0
     /\ LastUnmatchedOpen(rawText) # 0
     /\ try_parse_json(StatedRepair(rawText), gen.fields) # None)
    => extracted = try_parse_json(StatedRepair(rawText), gen.fields)

\* the substrings the scan of _extract_json_objects delimits in the answer
ScanCandidates == BraceScan(rawText, 1, 0, 0)

\* C22: a brace inside a quoted string does not change the depth of the scan:
\* an object that is whole in the answer, alone or behind plain words, is
\* one of the scan's candidates, from its opening to its closing brace, also
\* when one of its string values holds a brace.
C22_ScanRespectsStrings ==
    (/\ exPc # "post" /\ PlainAnswer /\ gen.cut = 0
     /\ gen.prefix \in {<<>>, <<"Sure", NL>>})
    => \E i \in 1..Len(ScanCandidates) : ScanCandidates[i] = RenderObject(gen.obj)

\* the blocks in braces that do not parse and precede the answer's object
BadBlocks == { <<"{", "bad", "}", SP>>, <<"{", "{", "bad", "}", "}", SP>> }

\* the answer's object as the length limit has cut it
CutObject == SubSeq(RenderObject(gen.obj), 1, Len(RenderObject(gen.obj)) - gen.cut)

\* C23: when the answer is a block in braces that does not parse followed by
\* an object that is cut off, and the cut object closed by the repair parses
\* to a record, that record is what extraction returns.
C23_RepairAfterBadBlock ==
    (/\ exPc = "done" /\ PlainAnswer /\ gen.cut > 0
     /\ gen.prefix \in BadBlocks
     /\ try_fix_truncated_json(CutObject) # None
     /\ try_parse_json(try_fix_truncated_json(CutObject)[1], gen.fields) # None)
    => extracted = try_parse_json(try_fix_truncated_json(CutObject)[1], gen.fields)

\* brace_count after the scan has read the first p characters of the text
DepthAfter(text, p) ==
    Cardinality({k \in 1..p : text[k] = "{"}) - Cardinality({k \in 1..p : text[k] = "}"})

\* C28: the depth of the scan is never negative, and a "}" without a partner
\* before an object that is whole does not keep the scan from delimiting
\* that object.
C28_DepthNeverNegative ==
    (exPc # "post" /\ PlainAnswer)
    => /\ \A p \in 1..Len(rawText) : DepthAfter(rawText, p) >= 0
       /\ (gen.prefix = <<"}", SP>> /\ gen.cut = 0)
            => \E i \in 1..Len(ScanCandidates) : ScanCandidates[i] = RenderObject(gen.obj)

\* the text inside the envelope
NestedText == AnswerText(gen.prefix, gen.obj, gen.cut, "none")

\* one envelope is given: the body of the HTTP answer is chat-style, or the
\* text read from a completion-style body is itself an envelope
EnvelopeGiven ==
    \/ gen.http = "chat" /\ gen.wrap = "none"
    \/ gen.http = "completion" /\ gen.wrap \in {"completion", "chat"}

\* C9: when the text given to extraction is an envelope of one of the two
\* shapes, the record is the one extracted from the nested text.
C9_EnvelopeUnwrapped ==
    (exPc = "done" /\ EnvelopeGiven)
    => extracted = parse_response(NestedText, gen.fields)

\* the bodies whose unwrapping fails: not JSON, no choices[0], a value on the
\* path that cannot be subscripted, a chat-style body that is taken for a
\* completion-style one
FailedEnvelopes == {"broken", "empty", "mistyped", "chat_typed"}

\* C24: when the unwrapping of the body fails, whatever the reason, the text
\* to extract from is the body itself, unchanged, and no exception leaves
\* the unwrapping.
C24_UnwrapFailureKeepsString ==
    (text_content # None /\ gen.http \in FailedEnvelopes)
    => text_content = Some(JStr(HttpBody(gen)))

\* C13: what analyze_email gives its caller after a transport failure of the
\* HTTP call differs from what it gives after a parse failure, which is None.
C13_TransportNotNone ==
    (exPc = "done" /\ gen.http = "error") => extracted # None

-----------------------------------------------------------------------------
(* Properties of the orchestrator loop (SpecMain).                         *)

\* C1: a reply that find_reply has returned for a send-event is dated
\* strictly after the sent message; a message of the store dated at or
\* before it is never returned.
C1_ReplyAfterSent ==
    mainPc = "analyze" => reply[1].date > sent_emails[idx].date

\* C21: a reply that find_reply has returned was received no later than 30
\* days after the sent message: it is the reading of a message of the store
\* whose internal date lies at or before the end of the window.
C21_WithinWindow ==
    mainPc = "analyze"
    => \E i \in 1..Len(inbox) :
         /\ reply[1] = [from |-> inbox[i].from, subject |-> inbox[i].subject,
                        date |-> inbox[i].date]
         /\ inbox[i].idate <= EndDate(sent_emails[idx].date)

\* this step is main's handler of an exception of find_reply
TerminalError ==
    /\ Len(outcome') = Len(outcome) + 1
    /\ outcome'[Len(outcome')] = "imap_error"

\* the steps the loop has left at most: those of the send-events not yet
\* begun and those of the one at idx
Remaining ==
    (Len(sent_emails) + 1 - idx) * (max_retries + 3)
      + (CASE mainPc = "find"    -> (max_retries - attempt) + 2
           [] mainPc = "analyze" -> 2
           [] mainPc = "update"  -> 1
           [] OTHER              -> 0)

\* C10: a terminal error of find_reply for one send-event does not abort the
\* run.  The handler's step leaves the loop at the next send-event; the run
\* is always inside the loop with every earlier send-event dealt with, or
\* finished with all of them dealt with; and every step brings the end of
\* the sequence nearer.
C10_FailureDoesNotAbort ==
    /\ [][TerminalError => (mainPc' = "find" /\ idx' = idx + 1)]_vars
    /\ [](/\ mainPc \in {"find", "analyze", "update", "finished"}
          /\ Len(outcome) = idx - 1
          /\ idx <= Len(sent_emails) + 1
          /\ mainPc = "finished" => Len(outcome) = Len(sent_emails))
    /\ [][Remaining' < Remaining]_vars

\* the run is over, find_reply had failed for one send-event and a later one
\* went all the way to the spreadsheet
C10_Witness ==
    /\ mainPc = "finished"
    /\ \E i, j \in 1..Len(outcome) :
         i < j /\ outcome[i] = "imap_error" /\ outcome[j] = "updated"

\* C26: between two iterations of the loop, and when it is over,
\* replies_found = lm_analysis_success + errors['lm_studio'] and
\* errors['imap'] + replies_found is at most the number of send-events dealt
\* with; errors['lm_studio'] is the number of bad_processing entries;
\* analyze_email is called only with a reply that was found, and update_rows
\* only with a record that was extracted.
C26_Accounting ==
    /\ mainPc \in {"find", "finished"} =>
         /\ stats.replies_found = stats.lm_analysis_success + stats.errors.lm_studio
         /\ stats.errors.imap + stats.replies_found <= Len(outcome)
         /\ Len(outcome) = idx - 1
    /\ stats.errors.lm_studio = Len(stats.bad_processing)
    /\ mainPc = "analyze" => reply # None
    /\ mainPc = "update" => (reply # None /\ extracted # None)

\* the loop is over: one reply could not be analysed, another was, and its
\* record went to the spreadsheet
C26_Witness ==
    /\ mainPc = "finished"
    /\ outcome = <<"lm_error", "updated">>
    /\ stats.replies_found = 2
    /\ Len(stats.bad_processing) = 1

-----------------------------------------------------------------------------
(* Properties of the retry wrapper (SpecRetry, SpecRetryFair).             *)

\* every invocation of the decorated function raises
AllAttemptsFail ==
    \A n \in 1..max_retries : func(wrapped, script[n], n).how = "raised"

\* C11: the decorated function is invoked at most max_retries times; when
\* every invocation raises, the wrapper ends and raises the exception of the
\* last invocation; an exception of an earlier invocation never leaves the
\* wrapper.
C11_RetryBounded ==
    /\ [](invoked <= max_retries)
    /\ []((rwPc = "done" /\ AllAttemptsFail)
            => rwResult = [how |-> "raised",
                           what |-> <<script[max_retries], max_retries>>])
    /\ [](rwResult.how = "raised" => rwResult.what[2] = max_retries)
    /\ <>(rwPc = "done")

\* three invocations raised, the first another exception than the last
C11_Witness ==
    /\ rwPc = "done"
    /\ invoked = max_retries
    /\ rwResult.how = "raised"
    /\ script[1] # script[max_retries]
    /\ slept = <<0, 1>>

\* C12: when the HTTP call of analyze_email fails in the transport, the call
\* is made again: a transport failure of the first invocation followed by an
\* invocation that yields a record gives the caller that record.
C12_TransportFailureRetried ==
    (/\ rwPc = "done"
     /\ wrapped = "analyze_email"
     /\ script[1] \in TransportErrors
     /\ script[2] = "value")
    => rwResult = [how |-> "returned", what |-> <<"value", 2>>]

\* the invocations that do not raise
Successes == {n \in 1..max_retries : func(wrapped, script[n], n).how = "returned"}

\* C30: the wrapper returns what the first invocation that does not raise
\* returned and invokes the function no more after it; it has slept once
\* after each invocation that raised, except after the max_retries-th: k
\* raising invocations and then a returning one make k + 1 invocations and
\* k sleeps, and max_retries raising invocations make max_retries - 1 sleeps.
C30_FirstSuccessAndSleeps ==
    /\ Len(slept) = rwAttempt
    /\ \A i \in 1..Len(slept) : slept[i] = i - 1
    /\ rwPc = "loop" => invoked = rwAttempt
    /\ (rwPc = "done" /\ Successes # {})
         => /\ invoked = MinOf(Successes)
            /\ rwResult = func(wrapped, script[invoked], invoked)
            /\ Len(slept) = invoked - 1
    /\ (rwPc = "done" /\ Successes = {})
         => /\ invoked = max_retries
            /\ Len(slept) = max_retries - 1

\* two invocations raised and the third returned: three invocations, two sleeps
C30_Witness ==
    /\ rwPc = "done"
    /\ rwResult.how = "returned"
    /\ invoked = 3
    /\ Len(slept) = 2
    /\ func(wrapped, script[1], 1).how = "raised"
    /\ func(wrapped, script[2], 2).how = "raised"

\* C14: after a send-event was given up because the connection was lost and
\* the attempts ran out, find_reply for a later send-event can succeed again:
\* an attempt that meets a reachable store and no fault of its own does not
\* raise.
C14_SessionUsableAfterDrop ==
    (/\ mainPc = "find"
     /\ idx <= Len(sent_emails)
     /\ conn = "dropped"
     /\ \E i \in 1..Len(outcome) : outcome[i] = "imap_error")
    => \E o \in AttemptOutcomes : o.res # Raised

-----------------------------------------------------------------------------
(* Properties of the hand-off to the spreadsheet (SpecXl).                 *)

\* the rows of the sheet that the email index lists for the recipient
RecipientRows ==
    {r \in 1..Len(df) :
        \E i \in 1..Len(extract_emails(to_email)) :
            r \in email_index(df, normalize_email(extract_emails(to_email)[i]))}

\* the cells of those rows for which the record holds a value that is not
\* blank and is another than the cell's
DueWrites ==
    {w \in RecipientRows \X (1..Len(raw_response[1])) :
        /\ strip(raw_response[1][w[2]].value) # <<>>
        /\ df[w[1]].cells[raw_response[1][w[2]].field] # strip(raw_response[1][w[2]].value)}

\* C15: update_rows, called with the record of analyze_email for a recipient
\* that the email index holds, writes every value of the record that is not
\* blank and differs from the cell, and returns 1 when it wrote; for a
\* recipient that the index does not hold it returns 0 and writes nothing.
C15_HandOffWrites ==
    [][xlPc = "call"
         => /\ \A w \in DueWrites :
                 df'[w[1]].cells[raw_response[1][w[2]].field]
                     = strip(raw_response[1][w[2]].value)
            /\ updated' = (IF DueWrites # {} THEN 1 ELSE 0)
            /\ RecipientRows = {} => df' = df]_vars

\* C19: a reply that find_reply returns for a sent record with a message id
\* or with references was found by one of the two identifier searches; the
\* searches by sender and subject or date are made only for a record that
\* has neither.
C19_FallbackOnlyWithoutIds ==
    (/\ mainPc = "analyze"
     /\ \/ sent_emails[idx].message_id # ""
        \/ sent_emails[idx].references # <<>>)
    => \E i \in 1..Len(inbox) :
         /\ reply[1] = [from |-> inbox[i].from, subject |-> inbox[i].subject,
                        date |-> inbox[i].date]
         /\ \/ /\ sent_emails[idx].message_id # ""
               /\ HeaderInReplyTo(inbox[i], sent_emails[idx].message_id)
            \/ /\ sent_emails[idx].references # <<>>
               /\ HeaderReferences(inbox[i],
                      sent_emails[idx].references[Len(sent_emails[idx].references)])

-----------------------------------------------------------------------------
(* Properties of the fetch loop of get_sent_emails (SpecSent).             *)

\* the calls of conn.fetch made for the message e
AttemptsOf(e) == {i \in 1..Len(fetchLog) : fetchLog[i].eid = e}

\* C25: every fetch is issued while the folder whose search returned the id
\* is the folder selected on the connection: no fetch is issued on a
\* connection with another folder or with no folder selected.
C25_FetchInSearchedFolder ==
    \A i \in 1..Len(fetchLog) :
        fetchLog[i].state # "dead" => fetchLog[i].folder = searched

\* C27: self.selected_folder names the folder that is selected on the
\* connection, as long as the connection is not lost.
C27_SelectedFolderIsActual ==
    imap.state # "dead" => selected_folder = imap.folder

\* C29: for each id at most retry_attempts calls of conn.fetch are made; an
\* attempt that follows an aborted attempt for the same id is made on a
\* connection that is logged in again with the sent folder selected again
\* (after a reconnect that failed there is no further attempt: the message
\* is skipped); every id the search returned is attempted; once the loop is
\* entered the function does not raise, and it returns the messages whose
\* fetch succeeded, in order.
C29_ReconnectOnDrop ==
    /\ \A e \in SeqToSet(gsIds) : Cardinality(AttemptsOf(e)) <= retry_attempts
    /\ \A i \in 1..(Len(fetchLog) - 1) :
          (fetchLog[i].outcome \in {"abort", "NO"} /\ fetchLog[i + 1].eid = fetchLog[i].eid)
          => (fetchLog[i + 1].state = "up" /\ fetchLog[i + 1].folder = searched)
    /\ (gsPc = "done" /\ searched # None)
         => /\ \A e \in SeqToSet(gsIds) : AttemptsOf(e) # {}
            /\ SeqToSet(gsEmails)
                 = {fetchLog[i].eid : i \in {j \in 1..Len(fetchLog) : fetchLog[j].outcome = "ok"}}
    /\ fetchLog # <<>> => gsPc # "raised"

\* the parts of C29 that do not depend on the state of the session
SentLoopBounded ==
    /\ \A e \in SeqToSet(gsIds) : Cardinality(AttemptsOf(e)) <= retry_attempts
    /\ (gsPc = "done" /\ searched # None)
         => /\ \A e \in SeqToSet(gsIds) : AttemptsOf(e) # {}
            /\ SeqToSet(gsEmails)
                 = {fetchLog[i].eid : i \in {j \in 1..Len(fetchLog) : fetchLog[j].outcome = "ok"}}
    /\ fetchLog # <<>> => gsPc # "raised"

SentLoopEnds == <>(gsPc \in {"done", "raised"})

=============================================================================
